---- MODULE Spec2Model ----
(***************************************************************************)
(* Model of the color-coding engine of src/colorizer/__init__.py:          *)
(* _tokenize_term, _plural_last_token_pattern, build_combined_regex and    *)
(* apply_color_coding_to_html, and of what drives it: get_color_table,     *)
(* ColorTableEditor._append_entries and color_notes_in_decks.              *)
(*                                                                         *)
(* A Python str is a sequence of one-character strings.  A compiled        *)
(* pattern is kept as its syntax tree (alternatives, token pieces, anchors *)
(* and look-aheads) together with its flags, and matching follows the      *)
(* order in which Python's backtracking matcher explores that tree:        *)
(* leftmost start, first alternative that succeeds, greedy repetition.     *)
(***************************************************************************)
EXTENDS Integers, Sequences, FiniteSets, TLC

VARIABLES
    color_table,     \* Dict[str,str] in insertion order: sequence of <<word, color>>
    opts,            \* the ColoringOptions the matcher was compiled with
    regex,           \* compiled pattern (None before the first compile)
    group_to_color,  \* group name k<i> -> color, as a sequence indexed by i+1
    html,            \* the fragment held by the field
    total,           \* replacement count returned by the last apply
    calls,           \* the repl() calls of the last apply, in order
    hist,            \* fragments so far: the input, then every apply result
    used,            \* the options of every apply so far
    cfg,             \* the add-on config: color_entries and the legacy JSON file
    editor,          \* ColorTableEditor: the rows of its table, the last return value
    batch,           \* color_notes_in_decks: where the run stands, its locals
    note,            \* the note the run holds in memory
    stored,          \* the collection's copy of that note
    col,             \* the notes of the selected decks, in the order of the search
    runs             \* what every finished color_notes_in_decks call returned

vars == <<color_table, opts, regex, group_to_color, html, total, calls, hist, used,
          cfg, editor, batch, note, stored, col, runs>>

\* nothing configured, no editor open, no run under way
NoConfig == [color_entries |-> <<>>, legacy |-> <<>>]
NoEditor == [rows |-> <<>>, ret |-> <<>>]
NoBatch == [phase |-> "idle"]
NoNote == [fields |-> <<>>]
Idle ==
    /\ cfg = NoConfig
    /\ editor = NoEditor
    /\ batch = NoBatch
    /\ note = NoNote
    /\ stored = NoNote
    /\ col = <<>>
    /\ runs = <<>>

(***************************************************************************)
(* Characters                                                              *)
(***************************************************************************)
UpperSeq == <<"A","B","C","D","E","F","G","H","I","J","K","L","M",
              "N","O","P","Q","R","S","T","U","V","W","X","Y","Z">>
LowerSeq == <<"a","b","c","d","e","f","g","h","i","j","k","l","m",
              "n","o","p","q","r","s","t","u","v","w","x","y","z">>
UpperLetters == {UpperSeq[i] : i \in 1..26}
LowerLetters == {LowerSeq[i] : i \in 1..26}
Digits == {"0","1","2","3","4","5","6","7","8","9"}
\* \w of a str pattern, restricted to ASCII
WordChars == UpperLetters \cup LowerLetters \cup Digits \cup {"_"}
\* \s of a str pattern, restricted to ASCII
SpaceChars == {" ", "\t", "\n", "\r", "\f"}
Vowels == {"a","e","i","o","u"}

ToLower == [c \in UpperLetters |-> LowerSeq[CHOOSE i \in 1..26 : UpperSeq[i] = c]]

\* str.lower() on one character
LowerChar(c) == IF c \in UpperLetters THEN ToLower[c] ELSE c

\* str.lower()
lower(s) == [i \in 1..Len(s) |-> LowerChar(s[i])]

\* one literal character of a pattern against one character of the text
CharEq(a, b, ignorecase) == IF ignorecase THEN LowerChar(a) = LowerChar(b) ELSE a = b

\* a literal (re.escape'd) string matched at index p of s
LitAt(s, p, lit, ignorecase) ==
    /\ p + Len(lit) - 1 <= Len(s)
    /\ \A j \in 1..Len(lit) : CharEq(s[p + j - 1], lit[j], ignorecase)

\* \b at index p (between s[p-1] and s[p])
WordBoundary(s, p) ==
    (p > 1 /\ s[p - 1] \in WordChars) # (p <= Len(s) /\ s[p] \in WordChars)

\* least index q >= p with s[q] in C, or 0
FirstIn(s, p, C) ==
    IF \E q \in p..Len(s) : s[q] \in C
    THEN CHOOSE q \in p..Len(s) : s[q] \in C /\ \A r \in p..(q - 1) : s[r] \notin C
    ELSE 0

\* index just after the maximal run of characters of C that starts at p
RunEnd(s, p, C) ==
    IF \E q \in p..Len(s) : s[q] \notin C
    THEN CHOOSE q \in p..Len(s) : s[q] \notin C /\ \A r \in p..(q - 1) : s[r] \in C
    ELSE Len(s) + 1

\* "sub in s"
Contains(s, sub) == \E p \in 1..(Len(s) - Len(sub) + 1) : LitAt(s, p, sub, FALSE)

RECURSIVE Concat(_)
\* "".join(parts)
Concat(parts) == IF parts = <<>> THEN <<>> ELSE Head(parts) \o Concat(Tail(parts))

(***************************************************************************)
(* String constants of the source                                          *)
(***************************************************************************)
SPAN_OPEN == <<"<","s","p","a","n"," ","c","l","a","s","s","=","\"","c","c","-","c","o","l","o","r","\"">>
SPAN_CLOSE == <<"<","/","s","p","a","n",">">>
CC_COLOR == <<"c","c","-","c","o","l","o","r">>
NBSP == <<"&","n","b","s","p",";">>
STYLE_ATTR == <<" ","s","t","y","l","e","=","\"">>
TAG_END == <<"\"",">">>
COLOR_DECL == <<"c","o","l","o","r",":">>
BOLD_DECL == <<"f","o","n","t","-","w","e","i","g","h","t",":","b","o","l","d",";">>
ITALIC_DECL == <<"f","o","n","t","-","s","t","y","l","e",":","i","t","a","l","i","c",";">>

(***************************************************************************)
(* ColoringOptions                                                         *)
(***************************************************************************)
ColoringOptions == [whole_words : BOOLEAN, case_insensitive : BOOLEAN, bold : BOOLEAN,
                    italic : BOOLEAN, bold_plurals : BOOLEAN, colorize : BOOLEAN]

DefaultOptions == [whole_words |-> TRUE, case_insensitive |-> TRUE, bold |-> TRUE,
                   italic |-> FALSE, bold_plurals |-> TRUE, colorize |-> TRUE]

(***************************************************************************)
(* _tokenize_term                                                          *)
(***************************************************************************)
\* the class [\s_\-]
SplitChars == SpaceChars \cup {"_", "-"}

RECURSIVE ReSplitRuns(_, _)
\* re.split(r"[\s_\-]+", term) from index p on
ReSplitRuns(s, p) ==
    LET q == FirstIn(s, p, SplitChars) IN
    IF q = 0 THEN <<SubSeq(s, p, Len(s))>>
    ELSE <<SubSeq(s, p, q - 1)>> \o ReSplitRuns(s, RunEnd(s, q, SplitChars))

\* one match of _CAMEL_TOKEN_RE at p: the index after it, or 0
\*   [A-Z]?[a-z]+ | [A-Z]+(?![a-z]) | \d+
CamelMatchEnd(s, p) ==
    LET n == Len(s)
        c == s[p]
        upEnd == RunEnd(s, p, UpperLetters)
    IN
    IF c \in UpperLetters /\ p + 1 <= n /\ s[p + 1] \in LowerLetters
        THEN RunEnd(s, p + 1, LowerLetters)
    ELSE IF c \in LowerLetters
        THEN RunEnd(s, p, LowerLetters)
    ELSE IF c \in UpperLetters
        THEN IF upEnd <= n /\ s[upEnd] \in LowerLetters
             THEN (IF upEnd - 1 > p THEN upEnd - 1 ELSE 0)
             ELSE upEnd
    ELSE IF c \in Digits
        THEN RunEnd(s, p, Digits)
    ELSE 0

RECURSIVE CamelFindall(_, _)
\* _CAMEL_TOKEN_RE.findall(term) from index p on
CamelFindall(s, p) ==
    IF p > Len(s) THEN <<>>
    ELSE LET e == CamelMatchEnd(s, p) IN
         IF e = 0 THEN CamelFindall(s, p + 1)
         ELSE <<SubSeq(s, p, e - 1)>> \o CamelFindall(s, e)

\* faulty variant of _tokenize_term: the compound-word classifier is applied
\* to every term, also to one with separators
tokenize_camel_everywhere(term) == CamelFindall(term, 1)

_tokenize_term(term) ==
    IF \E i \in 1..Len(term) : term[i] \in SplitChars
    THEN SelectSeq(ReSplitRuns(term, 1), LAMBDA t : t # <<>>)
    ELSE CamelFindall(term, 1)

(***************************************************************************)
(* _plural_last_token_pattern                                              *)
(***************************************************************************)
\* re.search(suffix + "$", b)
EndsWith(b, suffix) ==
    Len(b) >= Len(suffix) /\ SubSeq(b, Len(b) - Len(suffix) + 1, Len(b)) = suffix

\* base[:-k]
DropLast(base, k) == SubSeq(base, 1, Len(base) - k)

\* faulty variant of PluralCandidate: every plural is the base and "s"
plural_appends_s(base, case_insensitive) == base \o <<"s">>

\* faulty variant of PluralCandidate: the rule x -> ces is tried before the
\* rule (ex|ix) -> ices
plural_x_before_ex(base, case_insensitive) ==
    LET b == IF case_insensitive THEN lower(base) ELSE base IN
    IF EndsWith(b, <<"x">>) THEN DropLast(base, 1) \o <<"c","e","s">>
    ELSE IF EndsWith(b, <<"u","s">>) THEN DropLast(base, 2) \o <<"i">>
    ELSE IF EndsWith(b, <<"s">>) THEN base \o <<"e","s">>
    ELSE base \o <<"s">>

\* cand[1]: the plural candidate the rule cascade appends after the base
PluralCandidate(base, case_insensitive) ==
    LET b == IF case_insensitive THEN lower(base) ELSE base IN
    IF EndsWith(b, <<"u","s">>) THEN DropLast(base, 2) \o <<"i">>
    ELSE IF EndsWith(b, <<"u","m">>) THEN DropLast(base, 2) \o <<"a">>
    ELSE IF EndsWith(b, <<"o","n">>) THEN DropLast(base, 2) \o <<"a">>
    ELSE IF EndsWith(b, <<"e","x">>) \/ EndsWith(b, <<"i","x">>)
        THEN DropLast(base, 2) \o <<"i","c","e","s">>
    ELSE IF EndsWith(b, <<"i","s">>) THEN DropLast(base, 2) \o <<"e","s">>
    ELSE IF EndsWith(b, <<"m","a">>) THEN DropLast(base, 2) \o <<"m","a","t","a">>
    ELSE IF EndsWith(b, <<"m","e","n">>) THEN DropLast(base, 3) \o <<"m","i","n","a">>
    ELSE IF EndsWith(b, <<"x">>) THEN DropLast(base, 1) \o <<"c","e","s">>
    ELSE IF Len(b) >= 2 /\ b[Len(b)] = "y" /\ b[Len(b) - 1] \notin Vowels
        THEN DropLast(base, 1) \o <<"i","e","s">>
    ELSE IF \/ EndsWith(b, <<"s">>) \/ EndsWith(b, <<"x">>) \/ EndsWith(b, <<"z">>)
            \/ EndsWith(b, <<"c","h">>) \/ EndsWith(b, <<"s","h">>)
        THEN base \o <<"e","s">>
    ELSE base \o <<"s">>

\* the alternatives of (?:base|plural), in the order the pattern lists them
_plural_last_token_pattern(base, case_insensitive) ==
    <<base, PluralCandidate(base, case_insensitive)>>

(***************************************************************************)
(* build_combined_regex                                                    *)
(***************************************************************************)
RECURSIVE SumLen(_)
\* sum(len(tok) for tok in tokens)
SumLen(tokens) == IF tokens = <<>> THEN 0 ELSE Len(Head(tokens)) + SumLen(Tail(tokens))

\* the sort key (len(t[0]), sum(len(tok) for tok in t[0]))
SortKey(t) == <<Len(t.tokens), SumLen(t.tokens)>>

\* faulty variant of KeyGreater: the comparison a < b, an ascending sort
KeySmaller(a, b) == a[1] < b[1] \/ (a[1] = b[1] /\ a[2] < b[2])

\* tuple comparison a > b
KeyGreater(a, b) == a[1] > b[1] \/ (a[1] = b[1] /\ a[2] > b[2])

\* seq without its i-th element
RemoveAt(seq, i) == SubSeq(seq, 1, i - 1) \o SubSeq(seq, i + 1, Len(seq))

\* faulty variant of SortDescending: the triples stay in table order
keep_table_order(tmp) == tmp

RECURSIVE SortDescending(_)
\* list.sort(key=..., reverse=True): descending, equal keys keep their order
SortDescending(tmp) ==
    IF tmp = <<>> THEN <<>>
    ELSE LET i == CHOOSE i \in 1..Len(tmp) :
                     /\ \A j \in 1..Len(tmp) : ~KeyGreater(SortKey(tmp[j]), SortKey(tmp[i]))
                     /\ \A j \in 1..(i - 1) : SortKey(tmp[j]) # SortKey(tmp[i])
         IN <<tmp[i]>> \o SortDescending(RemoveAt(tmp, i))

\* the (tokens, key, color) triples of the terms that have at least one token
Tokenized(table) ==
    LET all == [i \in 1..Len(table) |->
                   [tokens |-> _tokenize_term(table[i][1]), key |-> table[i][1],
                    color |-> table[i][2]]]
    IN SelectSeq(all, LAMBDA t : t.tokens # <<>>)

\* faulty variant of tok_piece: the (?!s) guard goes on the last token of a
\* term of any number of tokens
tok_piece_guard_any_last(tok, is_last, ntokens, o) ==
    IF o.whole_words
    THEN [alts |-> IF is_last /\ o.bold_plurals
                   THEN _plural_last_token_pattern(tok, o.case_insensitive)
                   ELSE <<tok>>,
          wb |-> TRUE, not_s |-> FALSE]
    ELSE IF is_last /\ ~o.bold_plurals
         THEN [alts |-> <<tok>>, wb |-> FALSE, not_s |-> TRUE]
    ELSE IF is_last
         THEN [alts |-> _plural_last_token_pattern(tok, o.case_insensitive),
               wb |-> FALSE, not_s |-> FALSE]
    ELSE [alts |-> <<tok>>, wb |-> FALSE, not_s |-> FALSE]

\* faulty variant of tok_piece: whole_words puts no \b around the token
tok_piece_no_anchor(tok, is_last, ntokens, o) ==
    IF is_last /\ ~o.bold_plurals /\ ntokens = 1 /\ ~o.whole_words
    THEN [alts |-> <<tok>>, wb |-> FALSE, not_s |-> TRUE]
    ELSE [alts |-> IF is_last /\ o.bold_plurals
                   THEN _plural_last_token_pattern(tok, o.case_insensitive)
                   ELSE <<tok>>,
          wb |-> FALSE, not_s |-> FALSE]

\* tok_piece: one token's sub-pattern, as (alternatives, \b anchors, (?!s))
tok_piece(tok, is_last, ntokens, o) ==
    LET last_core == IF is_last /\ o.bold_plurals
                     THEN _plural_last_token_pattern(tok, o.case_insensitive)
                     ELSE <<tok>>
    IN
    IF o.whole_words
    THEN IF is_last
         THEN [alts |-> last_core, wb |-> TRUE, not_s |-> FALSE]
         ELSE [alts |-> <<tok>>, wb |-> TRUE, not_s |-> FALSE]
    ELSE IF is_last /\ ~o.bold_plurals /\ ntokens = 1
         THEN [alts |-> <<tok>>, wb |-> FALSE, not_s |-> TRUE]
    ELSE IF is_last
         THEN [alts |-> last_core, wb |-> FALSE, not_s |-> FALSE]
    ELSE [alts |-> <<tok>>, wb |-> FALSE, not_s |-> FALSE]

\* entry_pat: the token pieces of one term, joined by _SEP_RE when matched
entry_pat(tokens, o) ==
    [k \in 1..Len(tokens) |-> tok_piece(tokens[k], k = Len(tokens), Len(tokens), o)]

\* faulty variant of build_pattern: the group names count on from the
\* applies made so far instead of starting at k0
build_pattern_running_names(tmp, o) ==
    [i \in 1..Len(tmp) |->
        [gname |-> Len(used) + i - 1, pieces |-> entry_pat(tmp[i].tokens, o)]]

\* faulty variant of build_pattern: with no alternative the pattern is x
\* instead of (?!x)x
build_pattern_plain_x(tmp, o) ==
    IF tmp = <<>>
    THEN <<[gname |-> -1, pieces |-> <<[alts |-> <<<<"x">>>>, wb |-> FALSE, not_s |-> FALSE]>>]>>
    ELSE [i \in 1..Len(tmp) |-> [gname |-> i - 1, pieces |-> entry_pat(tmp[i].tokens, o)]]

\* the alternatives (?P<k0>...)|(?P<k1>...)|... of the sorted triples tmp;
\* no alternative at all is the pattern (?!x)x
build_pattern(tmp, o) ==
    [i \in 1..Len(tmp) |-> [gname |-> i - 1, pieces |-> entry_pat(tmp[i].tokens, o)]]

\* group_to_color[gname], for the sorted triples tmp
build_group_to_color(tmp) == [i \in 1..Len(tmp) |-> tmp[i].color]

\* the loop over the sorted triples and the final re.compile
compile_sorted(tmp, o) ==
    <<[pattern |-> build_pattern(tmp, o), ignorecase |-> o.case_insensitive],
      build_group_to_color(tmp)>>

\* (compiled_regex, groupname_to_color)
build_combined_regex(table, o) == compile_sorted(SortDescending(Tokenized(table)), o)

(***************************************************************************)
(* Matching the compiled pattern                                           *)
(***************************************************************************)
\* the one-character strings U+2013 and U+2014
EN_DASH == "en-dash"
EM_DASH == "em-dash"

\* one iteration of _SEP_RE at p: the index after it, or 0
\*   \s | &nbsp; | [-/] | en dash | em dash | <[^>]+?>
SepStep(s, p, ignorecase) ==
    IF p > Len(s) THEN 0
    ELSE IF s[p] \in SpaceChars THEN p + 1
    ELSE IF LitAt(s, p, NBSP, ignorecase) THEN p + Len(NBSP)
    ELSE IF s[p] \in {"-", "/"} THEN p + 1
    ELSE IF s[p] \in {EN_DASH, EM_DASH} THEN p + 1
    ELSE IF s[p] = "<"
        THEN LET q == FirstIn(s, p + 1, {">"}) IN IF q >= p + 2 THEN q + 1 ELSE 0
    ELSE 0

RECURSIVE SepEnds(_, _, _)
\* the indices reached after 1, 2, ... iterations of (?:...)+ from p
SepEnds(s, p, ignorecase) ==
    LET q == SepStep(s, p, ignorecase) IN
    IF q = 0 THEN <<>> ELSE <<q>> \o SepEnds(s, q, ignorecase)

RECURSIVE MatchPieces(_, _, _, _, _)
RECURSIVE MatchAlt(_, _, _, _, _, _)
RECURSIVE MatchAfterSep(_, _, _, _, _, _)

\* r if the attempt matched, else the next shorter separator
SepOrShorter(r, pieces, k, s, ends, j, ignorecase) ==
    IF r # 0 THEN r ELSE MatchAfterSep(pieces, k, s, ends, j - 1, ignorecase)

\* the next piece after the separator, most iterations first (greedy +)
MatchAfterSep(pieces, k, s, ends, j, ignorecase) ==
    IF j = 0 THEN 0
    ELSE SepOrShorter(MatchPieces(pieces, k, s, ends[j], ignorecase),
                      pieces, k, s, ends, j, ignorecase)

\* the separator after a non-last piece, then the rest of the term
MatchRest(pieces, k, s, ends, ignorecase) ==
    MatchAfterSep(pieces, k, s, ends, Len(ends), ignorecase)

\* alternative a of the piece pc at p: \b, the literal, \b, (?!s)
PieceAt(pc, a, s, p, ignorecase) ==
    /\ pc.wb => WordBoundary(s, p)
    /\ LitAt(s, p, a, ignorecase)
    /\ pc.wb => WordBoundary(s, p + Len(a))
    /\ pc.not_s => ~LitAt(s, p + Len(a), <<"s">>, ignorecase)

\* alternative a of piece k at p, then the rest of the term
MatchWith(a, pieces, k, s, p, ignorecase) ==
    IF ~PieceAt(pieces[k], a, s, p, ignorecase) THEN 0
    ELSE IF k = Len(pieces) THEN p + Len(a)
    ELSE MatchRest(pieces, k + 1, s, SepEnds(s, p + Len(a), ignorecase), ignorecase)

\* r if the alternative matched, else the next alternative of the piece
AltOrNext(r, pieces, k, s, p, j, ignorecase) ==
    IF r # 0 THEN r ELSE MatchAlt(pieces, k, s, p, j + 1, ignorecase)

\* piece k at p with its alternatives from the j-th on, then the rest of the term
MatchAlt(pieces, k, s, p, j, ignorecase) ==
    IF j > Len(pieces[k].alts) THEN 0
    ELSE AltOrNext(MatchWith(pieces[k].alts[j], pieces, k, s, p, ignorecase),
                   pieces, k, s, p, j, ignorecase)

\* pieces k.. of one term matched at p: the index after the match, or 0
MatchPieces(pieces, k, s, p, ignorecase) == MatchAlt(pieces, k, s, p, 1, ignorecase)

\* one term's alternative matched at p: the index after the match, or 0
MatchEntry(entry, s, p, ignorecase) == MatchPieces(entry.pieces, 1, s, p, ignorecase)

RECURSIVE MatchFrom(_, _, _, _)

\* the i-th alternative matched up to e, else the alternatives after it
GroupOrNext(e, re, s, p, i) ==
    IF e # 0 THEN [end |-> e, lastgroup |-> re.pattern[i].gname]
    ELSE MatchFrom(re, s, p, i + 1)

\* the alternatives from the i-th on, tried in order at p
MatchFrom(re, s, p, i) ==
    IF i > Len(re.pattern) THEN [end |-> 0, lastgroup |-> -1]
    ELSE GroupOrNext(MatchEntry(re.pattern[i], s, p, re.ignorecase), re, s, p, i)

\* regex.match at p: the first alternative that matches, as (end, lastgroup)
MatchAt(re, s, p) == MatchFrom(re, s, p, 1)

(***************************************************************************)
(* apply_color_coding_to_html                                              *)
(***************************************************************************)
RECURSIVE JoinSpace(_)
\* " ".join(style_bits)
JoinSpace(bits) ==
    IF bits = <<>> THEN <<>>
    ELSE IF Len(bits) = 1 THEN bits[1]
    ELSE bits[1] \o <<" ">> \o JoinSpace(Tail(bits))

\* faulty variant of style_bits: the declarations in another order
style_bits_bold_first(color, o) ==
    (IF o.bold THEN <<BOLD_DECL>> ELSE <<>>)
    \o (IF o.colorize THEN <<COLOR_DECL \o color \o <<";">>>> ELSE <<>>)
    \o (IF o.italic THEN <<ITALIC_DECL>> ELSE <<>>)

style_bits(color, o) ==
    (IF o.colorize THEN <<COLOR_DECL \o color \o <<";">>>> ELSE <<>>)
    \o (IF o.bold THEN <<BOLD_DECL>> ELSE <<>>)
    \o (IF o.italic THEN <<ITALIC_DECL>> ELSE <<>>)

\* faulty variant of repl: the wrapper holds the match in lower case
repl_lowercased(group0, gname, g2c, o) ==
    LET color == IF gname + 1 \in DOMAIN g2c THEN g2c[gname + 1] ELSE <<>>
        bits == (IF o.colorize THEN <<COLOR_DECL \o color \o <<";">>>> ELSE <<>>)
                \o (IF o.bold THEN <<BOLD_DECL>> ELSE <<>>)
                \o (IF o.italic THEN <<ITALIC_DECL>> ELSE <<>>)
    IN
    IF gname < 0 \/ color = <<>> \/ bits = <<>>
    THEN [text |-> group0, counted |-> 0]
    ELSE [text |-> SPAN_OPEN \o STYLE_ATTR \o JoinSpace(bits) \o TAG_END
                   \o lower(group0) \o SPAN_CLOSE,
          counted |-> 1]

\* repl(m): the replacement text and whether total was incremented
repl(group0, gname, g2c, o) ==
    LET color == IF gname + 1 \in DOMAIN g2c THEN g2c[gname + 1] ELSE <<>>
        bits == style_bits(color, o)
    IN
    IF gname < 0 \/ color = <<>> \/ bits = <<>>
    THEN [text |-> group0, counted |-> 0]
    ELSE [text |-> SPAN_OPEN \o STYLE_ATTR \o JoinSpace(bits) \o TAG_END
                   \o group0 \o SPAN_CLOSE,
          counted |-> 1]

RECURSIVE subn(_, _, _, _, _)

\* one replaced match: the text repl returned, then the rest of the chunk
Replaced(p, m, group0, r, rest) ==
    [out |-> r.text \o rest.out,
     n |-> 1 + rest.n,
     counted |-> r.counted + rest.counted,
     calls |-> <<[start |-> p, stop |-> m.end, lastgroup |-> m.lastgroup,
                  group0 |-> group0, returned |-> r.text]>> \o rest.calls]

\* one character copied, then the rest of the chunk
Copied(c, rest) == [rest EXCEPT !.out = <<c>> \o @]

\* the chunk from p on, given the outcome m of the match attempt at p
subn_step(re, g2c, o, chunk, p, m) ==
    IF m.end = 0
    THEN Copied(chunk[p], subn(re, g2c, o, chunk, p + 1))
    ELSE Replaced(p, m, SubSeq(chunk, p, m.end - 1),
                  repl(SubSeq(chunk, p, m.end - 1), m.lastgroup, g2c, o),
                  subn(re, g2c, o, chunk, m.end))

\* regex.subn(repl, chunk) from index p on:
\*   out = new text, n = matches, counted = increments of total, calls = repl calls
subn(re, g2c, o, chunk, p) ==
    IF p > Len(chunk) THEN [out |-> <<>>, n |-> 0, counted |-> 0, calls |-> <<>>]
    ELSE subn_step(re, g2c, o, chunk, p, MatchAt(re, chunk, p))


\* least index q >= p where lit starts (ignoring case iff ignorecase), or 0
FirstLit(s, p, lit, ignorecase) ==
    IF \E q \in p..Len(s) : LitAt(s, q, lit, ignorecase)
    THEN CHOOSE q \in p..Len(s) :
            LitAt(s, q, lit, ignorecase) /\ \A r \in p..(q - 1) : ~LitAt(s, r, lit, ignorecase)
    ELSE 0

RECURSIVE StripWrappers(_, _)
\* re.sub(r'<span class="cc-color"[^>]*>(.*?)</span>', r'\1', html,
\*        flags=re.DOTALL | re.IGNORECASE) from index p on
StripWrappers(s, p) ==
    LET lt == FirstIn(s, p, {"<"})
        gt == IF lt # 0 /\ LitAt(s, lt, SPAN_OPEN, TRUE)
              THEN FirstIn(s, lt + Len(SPAN_OPEN), {">"}) ELSE 0
        cl == IF gt = 0 THEN 0 ELSE FirstLit(s, gt + 1, SPAN_CLOSE, TRUE)
    IN
    IF lt = 0 THEN SubSeq(s, p, Len(s))
    ELSE IF cl = 0 THEN SubSeq(s, p, lt) \o StripWrappers(s, lt + 1)
    ELSE SubSeq(s, p, lt - 1) \o SubSeq(s, gt + 1, cl - 1)
         \o StripWrappers(s, cl + Len(SPAN_CLOSE))

RECURSIVE SplitTags(_, _, _)
\* re.split(r"(<[^>]+>)", html): text and tag chunks alternate, text first;
\* `from` is where the current text chunk starts, p where the scan stands
SplitTags(s, from, p) ==
    LET lt == FirstIn(s, p, {"<"})
        gt == IF lt = 0 THEN 0 ELSE FirstIn(s, lt + 1, {">"})
    IN
    IF lt = 0 THEN <<SubSeq(s, from, Len(s))>>
    ELSE IF gt >= lt + 2
        THEN <<SubSeq(s, from, lt - 1), SubSeq(s, lt, gt)>> \o SplitTags(s, gt + 1, gt + 1)
    ELSE SplitTags(s, from, lt + 1)

RECURSIVE SumOf(_)
SumOf(ns) == IF ns = <<>> THEN 0 ELSE Head(ns) + SumOf(Tail(ns))

\* the chunks the loop hands to regex.subn: i % 2 == 0 and chunk and
\* "cc-color" not in chunk (Python's even indices are the odd ones here)
eligible(parts, i) == i % 2 = 1 /\ parts[i] # <<>> /\ ~Contains(parts[i], CC_COLOR)

\* faulty variant of apply_result: the count is the number of matches
apply_result_counting_matches(normalized, parts, res) ==
    IF \A i \in 1..Len(parts) : res[i].n = 0
    THEN [html |-> normalized, total |-> 0, calls |-> <<>>]
    ELSE [html |-> Concat([i \in 1..Len(parts) |->
                              IF res[i].n > 0 THEN res[i].out ELSE parts[i]]),
          total |-> SumOf([i \in 1..Len(parts) |-> res[i].n]),
          calls |-> Concat([i \in 1..Len(parts) |->
                              [j \in 1..Len(res[i].calls) |->
                                  [chunk |-> i, text |-> parts[i], m |-> res[i].calls[j]]]])]

\* the end of the function, given the per-chunk results of the loop
apply_result(normalized, parts, res) ==
    IF \A i \in 1..Len(parts) : res[i].n = 0
    THEN [html |-> normalized, total |-> 0, calls |-> <<>>]
    ELSE [html |-> Concat([i \in 1..Len(parts) |->
                              IF res[i].n > 0 THEN res[i].out ELSE parts[i]]),
          total |-> SumOf([i \in 1..Len(parts) |-> res[i].counted]),
          calls |-> Concat([i \in 1..Len(parts) |->
                              [j \in 1..Len(res[i].calls) |->
                                  [chunk |-> i, text |-> parts[i], m |-> res[i].calls[j]]]])]

\* the loop over the chunks
apply_parts(normalized, parts, re, g2c, o) ==
    apply_result(normalized, parts,
                 [i \in 1..Len(parts) |->
                     IF eligible(parts, i) THEN subn(re, g2c, o, parts[i], 1)
                     ELSE [out |-> parts[i], n |-> 0, counted |-> 0, calls |-> <<>>]])

\* the function after the normalisation
apply_normalized(normalized, re, g2c, o) ==
    apply_parts(normalized, SplitTags(normalized, 1, 1), re, g2c, o)

\* apply_color_coding_to_html -> html = new fragment, total = count,
\* calls = the repl() calls made, each with the index and text of its chunk
apply_color_coding_to_html(h, re, g2c, o) ==
    IF h = <<>> THEN [html |-> h, total |-> 0, calls |-> <<>>]
    ELSE apply_normalized(StripWrappers(h, 1), re, g2c, o)

(***************************************************************************)
(* get_color_table                                                         *)
(*                                                                         *)
(* A JSON value is [t |-> "str", v |-> chars] or [t |-> "null"]; a row     *)
(* that is a dict is a function from some of the keys word, color, group   *)
(* to values, any other row is a value.                                    *)
(***************************************************************************)
\* isinstance(row, dict)
isinstance_dict(row) == "t" \notin DOMAIN row

\* str(x): a str is itself, None is the text None
str(x) == IF x.t = "str" THEN x.v ELSE <<"N","o","n","e">>

\* s.strip()
strip(s) ==
    IF \A i \in 1..Len(s) : s[i] \in SpaceChars THEN <<>>
    ELSE SubSeq(s, CHOOSE i \in 1..Len(s) : s[i] \notin SpaceChars
                                            /\ \A j \in 1..(i - 1) : s[j] \in SpaceChars,
                   CHOOSE i \in 1..Len(s) : s[i] \notin SpaceChars
                                            /\ \A j \in (i + 1)..Len(s) : s[j] \in SpaceChars)

\* str(row.get(key, "")).strip()
row_get(row, key) == IF key \in DOMAIN row THEN strip(str(row[key])) ELSE <<>>

\* table[w] = c on a dict kept in insertion order: a known key keeps its place
dict_set(table, w, c) ==
    IF \E i \in 1..Len(table) : table[i][1] = w
    THEN [i \in 1..Len(table) |-> IF table[i][1] = w THEN <<w, c>> ELSE table[i]]
    ELSE Append(table, <<w, c>>)

\* one turn of the loop over the rows: if isinstance(row, dict) ... if w and c
table_with_row(table, row) ==
    IF isinstance_dict(row) /\ row_get(row, "word") # <<>> /\ row_get(row, "color") # <<>>
    THEN dict_set(table, row_get(row, "word"), row_get(row, "color"))
    ELSE table

RECURSIVE table_from_rows(_, _, _)
\* the loop over the rows from the k-th on
table_from_rows(rows, k, table) ==
    IF k > Len(rows) THEN table
    ELSE table_from_rows(rows, k + 1, table_with_row(table, rows[k]))

\* get_color_table(): the config's entries if there are any, else the rows
\* of the legacy JSON file
get_color_table(c) ==
    IF c.color_entries # <<>>
    THEN table_from_rows(c.color_entries, 1, <<>>)
    ELSE table_from_rows(c.legacy, 1, <<>>)

(***************************************************************************)
(* The run: the matcher is compiled from the table and the options, then   *)
(* applied to the field; the options may be toggled and the matcher        *)
(* recompiled before the field is processed again.                         *)
(***************************************************************************)
\* regex, group_to_color = compiled
Compiled(compiled) == regex = compiled[1] /\ group_to_color = compiled[2]

InitWith(tables, fragments, options) ==
    /\ color_table \in tables
    /\ html \in fragments
    /\ opts \in options
    /\ total = 0
    /\ calls = <<>>
    /\ hist = <<html>>
    /\ used = <<>>
    /\ Idle
    /\ Compiled(build_combined_regex(color_table, opts))

\* regex, group_to_color = compiled, replacing the matcher held before
Recompiled(compiled) == regex' = compiled[1] /\ group_to_color' = compiled[2]

\* regex, group_to_color = build_combined_regex(color_table, o)
Recompile(o, limit) ==
    /\ Len(used) < limit
    /\ o # opts
    /\ opts' = o
    /\ Recompiled(build_combined_regex(color_table, o))
    /\ UNCHANGED <<color_table, html, total, calls, hist, used>>
    /\ UNCHANGED <<cfg, editor, batch, note, stored, col, runs>>

\* note[fname] = new_val, with the count num
Stored(r) ==
    /\ html' = r.html
    /\ total' = r.total
    /\ calls' = r.calls
    /\ hist' = Append(hist, r.html)

\* new_val, num = apply_color_coding_to_html(original, regex, group_to_color, opts)
Apply(limit) ==
    /\ Len(used) < limit
    /\ Stored(apply_color_coding_to_html(html, regex, group_to_color, opts))
    /\ used' = Append(used, opts)
    /\ UNCHANGED <<color_table, opts, regex, group_to_color>>
    /\ UNCHANGED <<cfg, editor, batch, note, stored, col, runs>>

(***************************************************************************)
(* color_notes_in_decks                                                    *)
(*                                                                         *)
(* batch.phase: idle (not called yet), raised (RuntimeError on an empty    *)
(* table), notes (at the head of the loop over the note ids), fields (in   *)
(* the loop over the fields of one note), returned.  The notes found by    *)
(* the search are read one by one as the loop reaches them.                *)
(***************************************************************************)
\* faulty variant of field_changed: the count decides
field_changed_by_count(new_val, original, num) == num > 0

\* if new_val != original
field_changed(new_val, original, num) == new_val # original

\* the locals of the run after the compile and the search query
batch_locals(has_decks, skip_cloze, nids) ==
    [phase |-> IF has_decks THEN "notes" ELSE "returned",
     skip_cloze |-> skip_cloze, nids |-> nids, idx |-> 0, fld |-> 0,
     modified |-> FALSE, replacements_for_note |-> 0,
     notes_seen |-> 0, notes_modified |-> 0, total_replacements |-> 0,
     compiles |-> 1,
     checkpoint |-> has_decks, searched |-> has_decks,
     progress |-> IF has_decks THEN "started" ELSE "none"]

\* faulty variant of Started: the empty table is noticed after the checkpoint
\* and the start of the progress indicator
started_checkpoint_first(table, has_decks, skip_cloze, nids) ==
    IF table = <<>>
    THEN /\ batch' = [phase |-> "raised", checkpoint |-> has_decks, searched |-> FALSE,
                      progress |-> IF has_decks THEN "started" ELSE "none"]
         /\ UNCHANGED <<color_table, regex, group_to_color>>
    ELSE /\ color_table' = table
         /\ Recompiled(build_combined_regex(table, opts))
         /\ batch' = batch_locals(has_decks, skip_cloze, nids)

\* the start of the run, given the table get_color_table() returned
Started(table, has_decks, skip_cloze, nids) ==
    IF table = <<>>
    THEN /\ batch' = [phase |-> "raised", checkpoint |-> FALSE, searched |-> FALSE,
                      progress |-> "none"]
         /\ UNCHANGED <<color_table, regex, group_to_color>>
    ELSE /\ color_table' = table
         /\ Recompiled(build_combined_regex(table, opts))
         /\ batch' = batch_locals(has_decks, skip_cloze, nids)

\* color_table = get_color_table(); regex, group_to_color = build_combined_regex(...)
\* up to `if not queries: return 0, 0, 0` and nids = mw.col.find_notes(search)
BatchStart(has_decks, skip_cloze, nids) ==
    /\ batch.phase = "idle"
    /\ Started(get_color_table(cfg), has_decks, skip_cloze, nids)
    /\ UNCHANGED <<opts, html, total, calls, hist, used, cfg, editor, note, stored, col, runs>>

\* faulty variant of BatchCancel: the cancel is also polled between the fields
\* of a note, and the run is left at once
BatchCancel_inside_note ==
    /\ batch.phase \in {"notes", "fields"}
    /\ batch.idx < batch.nids
    /\ batch' = [batch EXCEPT !.phase = "returned", !.progress = "finished"]
    /\ UNCHANGED <<color_table, opts, regex, group_to_color, html, total, calls, hist, used,
                   cfg, editor, note, stored, col, runs>>

\* mw.progress.want_cancel(): break; then mw.reset() and, in the finally
\* clause, mw.progress.finish()
BatchCancel ==
    /\ batch.phase = "notes"
    /\ batch.idx < batch.nids
    /\ batch' = [batch EXCEPT !.phase = "returned", !.progress = "finished"]
    /\ UNCHANGED <<color_table, opts, regex, group_to_color, html, total, calls, hist, used,
                   cfg, editor, note, stored, col, runs>>

\* the loop over nids is exhausted: mw.reset(), return
BatchFinish ==
    /\ batch.phase = "notes"
    /\ batch.idx = batch.nids
    /\ batch' = [batch EXCEPT !.phase = "returned", !.progress = "finished"]
    /\ UNCHANGED <<color_table, opts, regex, group_to_color, html, total, calls, hist, used,
                   cfg, editor, note, stored, col, runs>>

\* faulty variant of BatchNextNote: the table is read and the matcher compiled
\* again for every note
BatchNextNote_recompiling(n) ==
    /\ batch.phase = "notes"
    /\ batch.idx < batch.nids
    /\ note' = n
    /\ stored' = [before |-> n.fields, fields |-> n.fields, flushes |-> 0, written |-> {}]
    /\ color_table' = get_color_table(cfg)
    /\ Recompiled(build_combined_regex(get_color_table(cfg), opts))
    /\ batch' = IF batch.skip_cloze /\ n.cloze
                THEN [batch EXCEPT !.notes_seen = @ + 1, !.idx = @ + 1, !.compiles = @ + 1]
                ELSE [batch EXCEPT !.notes_seen = @ + 1, !.phase = "fields", !.fld = 1,
                                   !.modified = FALSE, !.replacements_for_note = 0,
                                   !.compiles = @ + 1]
    /\ UNCHANGED <<opts, html, total, calls, hist, used, cfg, editor, col, runs>>

\* note = mw.col.get_note(nid); notes_seen += 1; the cloze check; modified = False
BatchNextNote(n) ==
    /\ batch.phase = "notes"
    /\ batch.idx < batch.nids
    /\ note' = n
    /\ stored' = [before |-> n.fields, fields |-> n.fields, flushes |-> 0, written |-> {}]
    /\ batch' = IF batch.skip_cloze /\ n.cloze
                THEN [batch EXCEPT !.notes_seen = @ + 1, !.idx = @ + 1]
                ELSE [batch EXCEPT !.notes_seen = @ + 1, !.phase = "fields", !.fld = 1,
                                   !.modified = FALSE, !.replacements_for_note = 0]
    /\ UNCHANGED <<color_table, opts, regex, group_to_color, html, total, calls, hist, used,
                   cfg, editor, col, runs>>

\* the body of the loop over the fields, given what apply returned
FieldDone(original, r, changed) ==
    /\ note' = IF changed THEN [note EXCEPT !.fields[batch.fld] = r.html] ELSE note
    /\ stored' = IF changed THEN [stored EXCEPT !.written = @ \cup {batch.fld}] ELSE stored
    /\ batch' = [batch EXCEPT !.fld = @ + 1,
                              !.modified = @ \/ changed,
                              !.replacements_for_note = @ + (IF changed THEN r.total ELSE 0)]
    /\ html' = r.html
    /\ total' = r.total
    /\ calls' = r.calls
    /\ hist' = <<original, r.html>>
    /\ used' = <<opts>>

FieldApplied(original, r) == FieldDone(original, r, field_changed(r.html, original, r.total))

\* original = note[fname]; new_val, num = apply_color_coding_to_html(...);
\* if new_val != original: note[fname] = new_val ...
BatchField ==
    /\ batch.phase = "fields"
    /\ batch.fld <= Len(note.fields)
    /\ FieldApplied(note.fields[batch.fld],
                    apply_color_coding_to_html(note.fields[batch.fld], regex, group_to_color, opts))
    /\ UNCHANGED <<color_table, opts, regex, group_to_color, cfg, editor, col, runs>>

\* if modified: notes_modified += 1; total_replacements += ...; note.flush()
BatchNoteEnd ==
    /\ batch.phase = "fields"
    /\ batch.fld > Len(note.fields)
    /\ stored' = IF batch.modified
                 THEN [stored EXCEPT !.fields = note.fields, !.flushes = @ + 1]
                 ELSE stored
    /\ batch' = IF batch.modified
                THEN [batch EXCEPT !.phase = "notes", !.idx = @ + 1,
                                   !.notes_modified = @ + 1,
                                   !.total_replacements = @ + batch.replacements_for_note]
                ELSE [batch EXCEPT !.phase = "notes", !.idx = @ + 1]
    /\ UNCHANGED <<color_table, opts, regex, group_to_color, html, total, calls, hist, used,
                   cfg, editor, note, col, runs>>

\* set_color_table_entries(entries): the config and the JSON file are rewritten
SetEntries(entries) ==
    /\ cfg' = [color_entries |-> entries, legacy |-> entries]
    /\ cfg' # cfg
    /\ UNCHANGED <<color_table, opts, regex, group_to_color, html, total, calls, hist, used,
                   editor, batch, note, stored, col, runs>>

(***************************************************************************)
(* ColorTableEditor: the rows of the editor's table are the texts of their *)
(* three cells, which the user may have typed, padded or left empty.       *)
(***************************************************************************)
\* the words of the table: existing_words after the first loop
existing_words_of(rows) ==
    {strip(rows[r].word) : r \in 1..Len(rows)} \ {<<>>}

\* the locals of _append_entries before the loop over the incoming rows
append_locals(rows) ==
    [rows |-> rows, existing_words |-> existing_words_of(rows), added |-> 0, skipped |-> 0]

\* self._append_row(word, color, group); existing_words.add(word); added += 1
append_row(st, word, color, group) ==
    [st EXCEPT !.rows = Append(@, [word |-> word, color |-> color, group |-> group]),
               !.existing_words = @ \cup {word},
               !.added = @ + 1]

\* one turn of the loop over the incoming rows
append_turn(st, row) ==
    IF ~isinstance_dict(row) THEN st
    ELSE IF ~(row_get(row, "word") # <<>> /\ row_get(row, "color") # <<>>) THEN st
    ELSE IF row_get(row, "word") \in st.existing_words THEN [st EXCEPT !.skipped = @ + 1]
    ELSE append_row(st, row_get(row, "word"), row_get(row, "color"), row_get(row, "group"))

RECURSIVE append_loop(_, _, _)
\* the loop over the incoming rows from the k-th on
append_loop(incoming, k, st) ==
    IF k > Len(incoming) THEN st
    ELSE append_loop(incoming, k + 1, append_turn(st, incoming[k]))

\* ColorTableEditor._append_entries(incoming) on a table with the given rows
_append_entries(rows, incoming) == append_loop(incoming, 1, append_locals(rows))

\* the editor after the call: the table, what was returned, and for the
\* record the table before the call and the argument
Appended(incoming, st) ==
    editor' = [rows |-> st.rows, ret |-> <<st.added, st.skipped>>,
               before |-> editor.rows, incoming |-> incoming]

AppendEntries(incoming, limit) ==
    /\ Len(editor.rows) < limit
    /\ Appended(incoming, _append_entries(editor.rows, incoming))
    /\ UNCHANGED <<color_table, opts, regex, group_to_color, html, total, calls, hist, used,
                   cfg, batch, note, stored, col, runs>>

\* ColorTableEditor._add_row(): an empty row at the end
AddRow(limit) ==
    /\ Len(editor.rows) < limit
    /\ editor' = [editor EXCEPT
                     !.rows = Append(@, [word |-> <<>>, color |-> <<>>, group |-> <<>>]),
                     !.ret = <<>>]
    /\ UNCHANGED <<color_table, opts, regex, group_to_color, html, total, calls, hist, used,
                   cfg, batch, note, stored, col, runs>>

\* one field put through the matcher just compiled
RunCompiled(o, compiled) ==
    /\ Recompiled(compiled)
    /\ Stored(apply_color_coding_to_html(html, compiled[1], compiled[2], o))

\* one whole run over a note of one field: the matcher is compiled from the
\* table and the options o, then applied to the field
RunOnce(o, limit) ==
    /\ Len(used) < limit
    /\ opts' = o
    /\ RunCompiled(o, build_combined_regex(color_table, o))
    /\ used' = Append(used, o)
    /\ UNCHANGED <<color_table, cfg, editor, batch, note, stored, col, runs>>

(***************************************************************************)
(* Inputs                                                                  *)
(***************************************************************************)
\* all sequences of at most n chunks of the vocabulary V
ChunkSeqs(V, n) == UNION {[1..k -> V] : k \in 0..n}

\* all fragments made of at most n chunks of the vocabulary V
Fragments(V, n) == {Concat(cs) : cs \in ChunkSeqs(V, n)}

Cat == <<"C","a","t">>
cat == <<"c","a","t">>
cats == <<"c","a","t","s">>
red == <<"r","e","d">>
blue == <<"b","l","u","e">>
TagICat == <<"<","i"," ","c","a","t","=","\"","c","a","t","\"",">">>
OldWrapper == SPAN_OPEN \o <<">">>

\* {"cat": "red"}
CatTable == <<<<cat, red>>>>

BoldOnly == [DefaultOptions EXCEPT !.colorize = FALSE]
ColorOnly == [DefaultOptions EXCEPT !.bold = FALSE]
ToggleOptions == {DefaultOptions, BoldOnly, ColorOnly}

(***************************************************************************)
(* Spec: one field that may already hold wrappers of an earlier run and    *)
(* spans of its own, with a tag whose attribute name and value spell a     *)
(* table term; the field is processed up to MaxApplies times while         *)
(* colorize and bold are toggled.                                          *)
(***************************************************************************)
MaxChunks == 5
MaxApplies == 2

ForeignSpan == <<"<","s","p","a","n",">">>
EngineVocabulary == {Cat, TagICat, ForeignSpan, OldWrapper, SPAN_CLOSE}

\* every span of the stored fragment is closed and the spans nest properly
WrappersNested(cs) ==
    LET depth(k) == Cardinality({i \in 1..k : cs[i] \in {OldWrapper, ForeignSpan}})
                    - Cardinality({i \in 1..k : cs[i] = SPAN_CLOSE})
    IN (\A k \in 1..Len(cs) : depth(k) >= 0) /\ depth(Len(cs)) = 0

EngineFragments ==
    {Concat(cs) : cs \in {c \in ChunkSeqs(EngineVocabulary, MaxChunks) : WrappersNested(c)}}

Init == InitWith({CatTable}, EngineFragments, ToggleOptions)

Next ==
    \/ Apply(MaxApplies)
    \/ \E o \in ToggleOptions : Recompile(o, MaxApplies)

Spec == Init /\ [][Next]_vars

\* what a fresh matcher for the options o makes of the fragment x
ApplyCompiled(x, compiled, o) ==
    apply_color_coding_to_html(x, compiled[1], compiled[2], o).html
Direct(x, o) == ApplyCompiled(x, build_combined_regex(color_table, o), o)

\* C1: applying the same matcher with the same options to its own output
\* returns that output: apply(apply(x)) = apply(x), whatever wrappers x holds.
C1_Idempotent ==
    \A i \in 1..(Len(used) - 1) : used[i + 1] = used[i] => hist[i + 2] = hist[i + 1]

\* C10: applying B's matcher to the result of A's matcher gives what B's
\* matcher gives on the original fragment, for any two option sets A and B.
C10_ToggleReflection ==
    Len(used) = 2 => hist[3] = Direct(hist[1], used[2])

\* the tags of a fragment, in order: the runs <...> that hold no '>' inside
TagsOf(s) ==
    LET parts == SplitTags(s, 1, 1) IN [k \in 1..(Len(parts) \div 2) |-> parts[2 * k]]

IsWrapperOpen(t) == LitAt(t, 1, SPAN_OPEN, TRUE)
IsSpanOpen(t) == LitAt(t, 1, <<"<","s","p","a","n">>, TRUE) /\ Len(t) > 5 /\ t[6] \in {" ", ">"}
IsSpanClose(t) == Len(t) = Len(SPAN_CLOSE) /\ LitAt(t, 1, SPAN_CLOSE, TRUE)

RECURSIVE ForeignFrom(_, _, _)
\* the tags from the k-th on that belong to no wrapper; open lists the spans
\* open at that point, innermost first, TRUE for a wrapper: a </span> closes
\* the innermost open span and is the wrapper's own iff that span is a wrapper
ForeignFrom(tags, k, open) ==
    IF k > Len(tags) THEN <<>>
    ELSE IF IsWrapperOpen(tags[k]) THEN ForeignFrom(tags, k + 1, <<TRUE>> \o open)
    ELSE IF IsSpanOpen(tags[k]) THEN <<tags[k]>> \o ForeignFrom(tags, k + 1, <<FALSE>> \o open)
    ELSE IF IsSpanClose(tags[k]) /\ open # <<>>
        THEN (IF Head(open) THEN <<>> ELSE <<tags[k]>>) \o ForeignFrom(tags, k + 1, Tail(open))
    ELSE <<tags[k]>> \o ForeignFrom(tags, k + 1, open)

\* the tags of s that are neither the opening nor the closing tag of a wrapper
ForeignTags(s) == ForeignFrom(TagsOf(s), 1, <<>>)

\* C4: the tags of the input that are not a wrapper's stand in the output
\* byte for byte and in the same order, and no wrapper is put inside a tag,
\* not even where the attribute name and value spell a table term.
C4_TagSafety ==
    \A i \in 2..Len(hist) : ForeignTags(hist[i]) = ForeignTags(hist[1])

(***************************************************************************)
(* What a wrapper must look like, written out flag by flag                 *)
(***************************************************************************)
ExpectedStyle(color, o) ==
    LET c == <<"c","o","l","o","r",":">> \o color \o <<";">>
        b == <<"f","o","n","t","-","w","e","i","g","h","t",":","b","o","l","d",";">>
        i == <<"f","o","n","t","-","s","t","y","l","e",":","i","t","a","l","i","c",";">>
        sp == <<" ">>
    IN CASE o.colorize /\ o.bold /\ o.italic -> c \o sp \o b \o sp \o i
         [] o.colorize /\ o.bold /\ ~o.italic -> c \o sp \o b
         [] o.colorize /\ ~o.bold /\ o.italic -> c \o sp \o i
         [] o.colorize /\ ~o.bold /\ ~o.italic -> c
         [] ~o.colorize /\ o.bold /\ o.italic -> b \o sp \o i
         [] ~o.colorize /\ o.bold /\ ~o.italic -> b
         [] ~o.colorize /\ ~o.bold /\ o.italic -> i
         [] OTHER -> <<>>

ExpectedOpen(color, o) ==
    <<"<","s","p","a","n"," ","c","l","a","s","s","=","\"","c","c","-","c","o","l","o","r","\"",
      " ","s","t","y","l","e","=","\"">> \o ExpectedStyle(color, o) \o <<"\"",">">>

ExpectedWrapper(color, o, text) ==
    ExpectedOpen(color, o) \o text \o <<"<","/","s","p","a","n",">">>

AnyStyle(o) == o.colorize \/ o.bold \/ o.italic

\* the colors of the table
TableColors == {color_table[i][2] : i \in 1..Len(color_table)}

\* the options of the last apply, and the fragment it was given
LastOptions == used[Len(used)]
LastInput == hist[Len(hist) - 1]

\* number of places where lit stands in s
CountLit(s, lit) == Cardinality({p \in 1..Len(s) : LitAt(s, p, lit, FALSE)})

(***************************************************************************)
(* SpecStyle: plain text with one inline tag, every combination of the     *)
(* three style flags, one apply.                                           *)
(***************************************************************************)
MaxStyleChunks == 3
MaxRuns == 1

TagB == <<"<","b",">">>
StyleVocabulary == {Cat, <<"s">>, <<" ">>, TagB}

\* {"cat cat": "blue", "cat": "red"}
CatPhraseTable == <<<<<<"c","a","t"," ","c","a","t">>, blue>>, <<cat, red>>>>

\* {"ganglion": "#ff0000"} and the sentence it is applied to
GanglionTable == <<<<<<"g","a","n","g","l","i","o","n">>, <<"#","f","f","0","0","0","0">>>>>>
GangliaSentence == <<"T","h","e"," ","G","a","n","g","l","i","a"," ","a","r","e"," ",
                     "v","i","s","i","b","l","e",".">>
GangliaWrapped == <<"<","s","p","a","n"," ","c","l","a","s","s","=","\"","c","c","-","c","o","l","o","r","\"",
                    " ","s","t","y","l","e","=","\"","c","o","l","o","r",":","#","f","f","0","0","0","0",";",
                    " ","f","o","n","t","-","w","e","i","g","h","t",":","b","o","l","d",";","\"",">",
                    "G","a","n","g","l","i","a","<","/","s","p","a","n",">">>

StyleOptions ==
    {[DefaultOptions EXCEPT !.colorize = c, !.bold = b, !.italic = i] :
        c \in BOOLEAN, b \in BOOLEAN, i \in BOOLEAN}

InitStyle ==
    \/ InitWith({CatTable, CatPhraseTable}, Fragments(StyleVocabulary, MaxStyleChunks),
                StyleOptions)
    \/ InitWith({GanglionTable}, {GangliaSentence}, StyleOptions)

NextStyle ==
    \/ Apply(MaxRuns)
    \/ \E o \in StyleOptions : Recompile(o, MaxRuns)

SpecStyle == InitStyle /\ [][NextStyle]_vars

RECURSIVE EraseWrappers(_, _, _)
\* s from index p on, without the given opening tags and without </span>
EraseWrappers(s, p, opens) ==
    IF p > Len(s) THEN <<>>
    ELSE IF s[p] # "<" THEN <<s[p]>> \o EraseWrappers(s, p + 1, opens)
    ELSE IF \E t \in opens : LitAt(s, p, t, FALSE)
        THEN LET t == CHOOSE t \in opens : LitAt(s, p, t, FALSE)
             IN EraseWrappers(s, p + Len(t), opens)
    ELSE IF LitAt(s, p, <<"<","/","s","p","a","n",">">>, FALSE)
        THEN EraseWrappers(s, p + 7, opens)
    ELSE <<s[p]>> \o EraseWrappers(s, p + 1, opens)

\* s without the wrappers the applies made so far have put in
WrapperFree(s) ==
    EraseWrappers(s, 1, {ExpectedOpen(c, used[k]) :
                            c \in TableColors, k \in {j \in 1..Len(used) : AnyStyle(used[j])}})

\* C7: a wrapper encloses the matched text as it stood (case, plural
\* spelling, separators) under the table's color string: taking the wrappers
\* of the table's colors out of the result gives the input back (less the
\* wrappers of an earlier apply, which are stripped first), as many
\* wrappers were put in as were counted, and "The Ganglia are visible."
\* with ganglion -> #ff0000 and default options holds the wrapped "Ganglia"
\* with a count of 1.
C7_SurfaceAndColor ==
    Len(used) >= 1 =>
        LET opens == IF AnyStyle(LastOptions)
                     THEN {ExpectedOpen(c, LastOptions) : c \in TableColors} ELSE {}
        IN
        /\ EraseWrappers(html, 1, opens) = WrapperFree(LastInput)
        /\ CountLit(html, <<"<","/","s","p","a","n",">">>) = total
        /\ Cardinality({p \in 1..Len(html) : \E t \in opens : LitAt(html, p, t, FALSE)}) = total
        /\ (color_table = GanglionTable /\ LastOptions = DefaultOptions)
            => (Contains(html, GangliaWrapped) /\ total = 1)

\* "The Ganglia are visible." after its apply with default options
C7_Witness ==
    /\ Len(used) = 1
    /\ color_table = GanglionTable
    /\ hist[1] = GangliaSentence
    /\ LastOptions = DefaultOptions
    /\ total = 1

\* C9: a match is wrapped iff colorize, bold or italic is set; the style
\* lists color:<c>; font-weight:bold; font-style:italic; for the set flags,
\* in that order, one space apart; with no flag set every match is returned
\* verbatim and the count is 0.
C9_StyleFlags ==
    Len(used) >= 1 =>
        /\ \A n \in 1..Len(calls) :
              IF AnyStyle(LastOptions)
              THEN /\ \E c \in TableColors :
                        calls[n].m.returned = ExpectedWrapper(c, LastOptions, calls[n].m.group0)
                   /\ Contains(html, calls[n].m.returned)
              ELSE calls[n].m.returned = calls[n].m.group0
        /\ total = (IF AnyStyle(LastOptions) THEN Len(calls) ELSE 0)
        /\ CountLit(html, SPAN_OPEN) = total
        /\ ~AnyStyle(LastOptions) => html = WrapperFree(LastInput)

\* two matches with italic as the only style flag
C9_Witness ==
    /\ Len(used) = 1
    /\ LastOptions = [DefaultOptions EXCEPT !.colorize = FALSE, !.bold = FALSE, !.italic = TRUE]
    /\ Len(calls) = 2
    /\ total = 2

\* matches found while no style flag is set
C9_WitnessNoStyle ==
    /\ Len(used) = 1
    /\ ~AnyStyle(LastOptions)
    /\ Len(calls) >= 1
    /\ total = 0

(***************************************************************************)
(* SpecPrec: tables whose terms compete for the same text, on fragments of *)
(* the words Heart and Attack, a plural s, a space and the tag <br>.       *)
(***************************************************************************)
MaxPrecChunks == 3

Heart == <<"H","e","a","r","t">>
heart == <<"h","e","a","r","t">>
Hearts == <<"H","e","a","r","t","s">>
Attack == <<"A","t","t","a","c","k">>
HeartAttack == <<"H","e","a","r","t"," ","A","t","t","a","c","k">>
AttackHeartHeart == <<"A","t","t","a","c","k"," ","H","e","a","r","t"," ","H","e","a","r","t">>
TagBr == <<"<","b","r",">">>
PrecVocabulary == {Heart, Attack, <<" ">>, <<"s">>, TagBr}

\* "Heart Attack Heart Heart" and "Heart<br>Attack"
HeartAttackHeartHeart == HeartAttack \o <<" ">> \o Heart \o <<" ">> \o Heart
HeartBrAttack == Heart \o TagBr \o Attack

\* {"Heart Attack": red, "Heart": blue} and the same terms in the other order
PhraseFirst == <<<<HeartAttack, red>>, <<Heart, blue>>>>
PhraseLast == <<<<Heart, blue>>, <<HeartAttack, red>>>>
\* two terms of equal key, in both orders
CaseTie == <<<<Heart, red>>, <<heart, blue>>>>
CaseTieRev == <<<<heart, blue>>, <<Heart, red>>>>
\* equal token count, different length
LongerToken == <<<<Heart, red>>, <<Hearts, blue>>>>
\* a two-token and a three-token term that can overlap from different starts
Overlap == <<<<HeartAttack, red>>, <<AttackHeartHeart, blue>>>>
PhraseOnly == <<<<HeartAttack, red>>>>
PrecTables == {PhraseFirst, PhraseLast, CaseTie, CaseTieRev, LongerToken, Overlap, PhraseOnly}

\* the default options, exact case, and words matched in part
CaseSensitive == [DefaultOptions EXCEPT !.case_insensitive = FALSE]
PartialWords == [DefaultOptions EXCEPT !.whole_words = FALSE]
PrecOptions == {DefaultOptions, CaseSensitive, PartialWords}

InitPrec ==
    InitWith(PrecTables,
             Fragments(PrecVocabulary, MaxPrecChunks) \cup {HeartAttackHeartHeart},
             PrecOptions)

NextPrec ==
    \/ Apply(MaxRuns)
    \/ \E o \in PrecOptions : Recompile(o, MaxRuns)

SpecPrec == InitPrec /\ [][NextPrec]_vars

\* the tokens of the i-th term of the table, their number and total length
TermTokens(i) == _tokenize_term(color_table[i][1])
TokenCount(i) == Len(TermTokens(i))
TokenChars(i) == SumLen(TermTokens(i))

\* the token pieces of every term of the table, under the options of the
\* last apply
TermPieces == [i \in 1..Len(color_table) |-> entry_pat(TermTokens(i), LastOptions)]

\* where an occurrence of a term with the given pieces that starts at p in s
\* ends (the index after it); 0 if none starts there
OccurrenceOf(pieces, s, p) == MatchPieces(pieces, 1, s, p, LastOptions.case_insensitive)

\* the same for the i-th term of the table
Occurrence(i, s, p) == OccurrenceOf(TermPieces[i], s, p)

\* the i-th term is the greatest of those in `among`: no term of a greater
\* (token count, total length), and none of the same key earlier in the table
Greatest(i, among) ==
    /\ i \in among
    /\ \A j \in among :
          /\ TokenCount(j) <= TokenCount(i)
          /\ TokenCount(j) = TokenCount(i) => TokenChars(j) <= TokenChars(i)
          /\ (TokenCount(j) = TokenCount(i) /\ TokenChars(j) = TokenChars(i)) => i <= j

\* C2: where several terms can match at the start of a replacement, the
\* wrapper holds an occurrence of the term greatest in (token count, sum of
\* token lengths), the first of the table among equal keys, under that term's
\* color; {"Heart Attack": red, "Heart": blue} on "Heart Attack" gives one
\* wrapper, around the whole phrase, in red.
C2_PrecedenceAtStart ==
    Len(used) >= 1 =>
        /\ \A n \in 1..Len(calls) :
              LET s == calls[n].text
                  p == calls[n].m.start
                  among == {i \in 1..Len(color_table) : Occurrence(i, s, p) # 0}
              IN \E i \in among :
                    /\ Greatest(i, among)
                    /\ calls[n].m.stop = Occurrence(i, s, p)
                    /\ calls[n].m.returned =
                          ExpectedWrapper(color_table[i][2], LastOptions, calls[n].m.group0)
        /\ (color_table \in {PhraseFirst, PhraseLast} /\ hist[1] = HeartAttack)
              => (html = ExpectedWrapper(red, LastOptions, HeartAttack) /\ total = 1)

\* "Heart Attack" after its apply, with "Heart" listed before "Heart Attack"
C2_Witness ==
    /\ Len(used) = 1
    /\ color_table = PhraseLast
    /\ hist[1] = HeartAttack
    /\ LastOptions = DefaultOptions
    /\ total = 1

\* two terms of equal key matched at the same start, the second of the table
\* written exactly as the text
C2_WitnessTie ==
    /\ Len(used) = 1
    /\ color_table = CaseTieRev
    /\ hist[1] = Heart
    /\ LastOptions = DefaultOptions
    /\ total = 1

\* the chunks of the fragment handed to the last apply, less the wrappers of
\* an earlier apply; the text chunks are the odd ones
LastParts == SplitTags(WrapperFree(LastInput), 1, 1)
TextChunksOf(parts) == {c \in 1..Len(parts) : c % 2 = 1}

\* a replacement covering exactly s[p..e-1] of chunk c was made
WrappedAt(c, p, e) ==
    \E n \in 1..Len(calls) :
        calls[n].chunk = c /\ calls[n].m.start = p /\ calls[n].m.stop = e

\* the position p of chunk c lies inside a replacement that starts before it
Consumed(c, p) ==
    \E n \in 1..Len(calls) :
        calls[n].chunk = c /\ calls[n].m.start < p /\ p < calls[n].m.stop

\* (a term has as many pieces as tokens)
\* C3 as stated: whenever an occurrence of a term with more tokens overlaps
\* an occurrence of a term with fewer tokens in one text chunk, the
\* occurrence of the term with more tokens is wrapped, wherever the two start.
C3_PhrasePreempts ==
    Len(used) >= 1 =>
        LET parts == LastParts
            pieces == TermPieces
        IN
        \A c \in TextChunksOf(parts) : \A a \in 1..Len(color_table) :
            \A pa \in 1..Len(parts[c]) :
                LET ea == OccurrenceOf(pieces[a], parts[c], pa) IN
                ea # 0 =>
                    \A b \in {j \in 1..Len(color_table) : Len(pieces[j]) < Len(pieces[a])} :
                        \A pb \in 1..(ea - 1) :
                            OccurrenceOf(pieces[b], parts[c], pb) > pa => WrappedAt(c, pa, ea)

\* C3 amended: an occurrence of a term with more tokens that overlaps an
\* occurrence of a term with fewer tokens, starts no later than it and not
\* inside an earlier replacement, has a replacement at its start that covers
\* an occurrence of a term with at least as many tokens; an occurrence that
\* starts earlier is replaced first whatever its token count, so that with
\* {"Heart Attack": red, "Attack Heart Heart": blue} the fragment
\* "Heart Attack Heart Heart" keeps "Heart Attack" in red and nothing else.
C3_PhrasePreemptsFromStart ==
    Len(used) >= 1 =>
        /\ LET parts == LastParts
               pieces == TermPieces
           IN
           \A c \in TextChunksOf(parts) : \A a \in 1..Len(color_table) :
              \A pa \in 1..Len(parts[c]) :
                  LET ea == OccurrenceOf(pieces[a], parts[c], pa) IN
                  (ea # 0 /\ ~Consumed(c, pa)) =>
                      \A b \in {j \in 1..Len(color_table) : Len(pieces[j]) < Len(pieces[a])} :
                          \A pb \in pa..(ea - 1) :
                              OccurrenceOf(pieces[b], parts[c], pb) # 0
                                  => \E i \in 1..Len(color_table) :
                                        /\ Len(pieces[i]) >= Len(pieces[a])
                                        /\ OccurrenceOf(pieces[i], parts[c], pa) # 0
                                        /\ WrappedAt(c, pa, OccurrenceOf(pieces[i], parts[c], pa))
        /\ (color_table = Overlap /\ hist[1] = HeartAttackHeartHeart)
              => /\ html = ExpectedWrapper(red, LastOptions, HeartAttack)
                            \o <<" ">> \o Heart \o <<" ">> \o Heart
                 /\ total = 1

\* the phrase and its first word start together, the phrase listed after the
\* word and words matched in part
C3_Witness ==
    /\ Len(used) = 1
    /\ color_table = PhraseLast
    /\ hist[1] = HeartAttack
    /\ ~LastOptions.whole_words
    /\ total = 1

\* the three-token occurrence that starts inside the two-token one
C3_WitnessLaterStart ==
    /\ Len(used) = 1
    /\ color_table = Overlap
    /\ hist[1] = HeartAttackHeartHeart
    /\ total = 1

\* C5: with a table that holds "Heart Attack", the fragment "Heart<br>Attack"
\* (the two tokens of the term separated by one inline tag) is matched as
\* the term: the count is at least 1 and the result holds a wrapper of the
\* term's color.
C5_InlineTagSeparator ==
    (/\ Len(used) >= 1
     /\ hist[1] = HeartBrAttack
     /\ \E i \in 1..Len(color_table) : color_table[i] = <<HeartAttack, red>>)
        => (total >= 1 /\ Contains(html, ExpectedOpen(red, LastOptions)))

(***************************************************************************)
(* SpecPlural: one single-token term with plurals enabled, on words built  *)
(* from the term, its capitalised form and the endings s and e, under both *)
(* settings of whole_words and case_insensitive.                           *)
(***************************************************************************)
MaxPluralChunks == 4

nucleus == <<"n","u","c","l","e","u","s">>
nuclei == <<"n","u","c","l","e","i">>
nucleuses == <<"n","u","c","l","e","u","s","e","s">>
green == <<"g","r","e","e","n">>
PluralVocabulary == {cat, Cat, <<"s">>, <<"e">>, <<" ">>, TagB}

\* {"nucleus": green} and "nuclei nucleuses nucleus"
NucleusTable == <<<<nucleus, green>>>>
NucleiSentence == nuclei \o <<" ">> \o nucleuses \o <<" ">> \o nucleus

PluralOptions ==
    {[DefaultOptions EXCEPT !.whole_words = w, !.case_insensitive = c] :
        w \in BOOLEAN, c \in BOOLEAN}

InitPlural ==
    \/ InitWith({CatTable}, Fragments(PluralVocabulary, MaxPluralChunks), PluralOptions)
    \/ InitWith({NucleusTable}, {NucleiSentence}, PluralOptions)

NextPlural ==
    \/ Apply(MaxRuns)
    \/ \E o \in PluralOptions : Recompile(o, MaxRuns)

SpecPlural == InitPlural /\ [][NextPlural]_vars

\* the plural the rules give for the terms of the tables above
ExpectedPlural(t) == IF t = nucleus THEN nuclei ELSE t \o <<"s">>

\* w is the word v, compared without case iff case_insensitive is set
SameWord(w, v, o) == IF o.case_insensitive THEN lower(w) = lower(v) ELSE w = v

RECURSIVE WrapWords(_, _, _, _, _)
\* s from index p on, where every word (maximal run of word characters
\* outside tags) that is the term t or its plural stands in a wrapper
WrapWords(s, p, t, color, o) ==
    IF p > Len(s) THEN <<>>
    ELSE IF s[p] = "<"
        THEN LET q == FirstIn(s, p, {">"})
             IN SubSeq(s, p, q) \o WrapWords(s, q + 1, t, color, o)
    ELSE IF s[p] \in WordChars
        THEN LET e == RunEnd(s, p, WordChars)
                 w == SubSeq(s, p, e - 1)
             IN (IF SameWord(w, t, o) \/ SameWord(w, ExpectedPlural(t), o)
                 THEN ExpectedWrapper(color, o, w) ELSE w)
                \o WrapWords(s, e, t, color, o)
    ELSE <<s[p]>> \o WrapWords(s, p + 1, t, color, o)

\* C6: with bold_plurals and whole_words set, a word of the text is wrapped
\* iff it is the term or the term's one plural (without regard to case iff
\* case_insensitive is set), and every other word is left as it stood: the
\* result is the input (less the wrappers of an earlier apply) with exactly
\* those words wrapped; for "nucleus",
\* "nuclei" is wrapped and "nucleuses" is not.
C6_PluralScope ==
    (Len(used) >= 1 /\ LastOptions.whole_words /\ LastOptions.bold_plurals) =>
        /\ html = WrapWords(WrapperFree(LastInput), 1, color_table[1][1], color_table[1][2],
                            LastOptions)
        /\ (color_table = NucleusTable)
              => /\ Contains(html, ExpectedWrapper(green, LastOptions, nuclei))
                 /\ Contains(html, <<" ">> \o nucleuses \o <<" ">>)
                 /\ total = 2

\* "nuclei nucleuses nucleus" after its apply with whole words
C6_Witness ==
    /\ Len(used) = 1
    /\ color_table = NucleusTable
    /\ hist[1] = NucleiSentence
    /\ LastOptions = DefaultOptions
    /\ total = 2

\* another inflection of "cat" and the term itself in one text, case-sensitively
C6_WitnessOtherInflection ==
    /\ Len(used) = 1
    /\ color_table = CatTable
    /\ hist[1] = cat \o <<"e">> \o <<" ">> \o cat
    /\ LastOptions.whole_words /\ ~LastOptions.case_insensitive
    /\ total = 1

\* C8: with bold_plurals set, under every setting of the other options, a
\* replacement that starts where the plural of the term stands covers the
\* whole plural and not only the singular stem: for "cat" on "cats" the
\* wrapped text is "cats".
C8_WholePlural ==
    (Len(used) >= 1 /\ LastOptions.bold_plurals) =>
        \A n \in 1..Len(calls) :
            LitAt(calls[n].text, calls[n].m.start, ExpectedPlural(color_table[1][1]),
                  LastOptions.case_insensitive)
                => Len(calls[n].m.group0) = Len(ExpectedPlural(color_table[1][1]))

(***************************************************************************)
(* Normalisation                                                           *)
(***************************************************************************)
\* the places of s where the opening tag of a wrapper starts
WrapperOpensAt(s) == {p \in 1..Len(s) : LitAt(s, p, SPAN_OPEN, TRUE)}

\* C11: after an apply the result holds a wrapper only where this apply put
\* one: every opening tag of a wrapper in the result is one of the current
\* options and table colors and there are as many as were counted, so every
\* wrapper of the input, also one nested in another, is gone.
C11_StripsEveryWrapper ==
    Len(used) >= 1 =>
        /\ Cardinality(WrapperOpensAt(html)) = total
        /\ \A p \in WrapperOpensAt(html) :
              \E c \in TableColors : LitAt(html, p, ExpectedOpen(c, LastOptions), FALSE)

(***************************************************************************)
(* SpecEmpty: tables with no usable term (no term at all, or terms made of *)
(* separators or punctuation only) next to a table with one, on fragments  *)
(* without wrappers that hold the letter x of the never-matching pattern.  *)
(***************************************************************************)
MaxEmptyChunks == 3

TagEndB == <<"<","/","b",">">>
SomeBoldText == <<"S","o","m","e"," ","<","b",">","t","e","x","t","<","/","b",">">>
EmptyVocabulary == {cat, <<"x">>, <<"-">>, <<" ">>, TagB}

\* [], {"-": red}, {"_ -": red, "!": blue}
NoTerms == <<>>
OnlySeparators == <<<<<<"-">>, red>>>>
NoTokens == <<<<<<"_"," ","-">>, red>>, <<<<"!">>, blue>>>>
EmptyTables == {NoTerms, OnlySeparators, NoTokens, CatTable}

EmptyOptions ==
    {[DefaultOptions EXCEPT !.whole_words = w, !.bold_plurals = b] :
        w \in BOOLEAN, b \in BOOLEAN}

InitEmpty ==
    InitWith(EmptyTables, Fragments(EmptyVocabulary, MaxEmptyChunks) \cup {SomeBoldText},
             EmptyOptions)

NextEmpty ==
    \/ Apply(MaxRuns)
    \/ \E o \in EmptyOptions : Recompile(o, MaxRuns)

SpecEmpty == InitEmpty /\ [][NextEmpty]_vars

\* no term of the table has a token
ZeroUsableTerms == \A i \in 1..Len(color_table) : _tokenize_term(color_table[i][1]) = <<>>

\* C12: with a table that is empty or whose terms all have no token, the
\* compiled matcher matches at no position of the fragment, and an apply on a
\* fragment without wrappers returns it unchanged with a count of 0;
\* "Some <b>text</b>" comes back as it was.
C12_ZeroTerms ==
    ZeroUsableTerms =>
        /\ \A p \in 1..Len(html) : MatchAt(regex, html, p).end = 0
        /\ group_to_color = <<>>
        /\ Len(used) >= 1 => (html = LastInput /\ total = 0 /\ calls = <<>>)

\* "Some <b>text</b>" after its apply with the empty table
C12_Witness ==
    /\ Len(used) = 1
    /\ color_table = NoTerms
    /\ hist[1] = SomeBoldText
    /\ html = SomeBoldText
    /\ total = 0

\* a fragment holding an x after its apply with terms that have no token
C12_WitnessNoTokens ==
    /\ Len(used) = 1
    /\ color_table = NoTokens
    /\ hist[1] = <<"x">> \o TagB \o <<"-">>
    /\ total = 0

(***************************************************************************)
(* SpecBatch: one run of color_notes_in_decks over up to MaxNotes notes of *)
(* up to MaxFields fields; a field holds plain text with or without a      *)
(* term, a stale wrapper around text that is no term, or a term wrapped    *)
(* as the default options wrap it.  The config may be rewritten while the  *)
(* run is under way.                                                       *)
(***************************************************************************)
MaxNotes == 2
MaxFields == 2

dog == <<"d","o","g">>
StaleDog == OldWrapper \o dog \o SPAN_CLOSE
WrappedCat == ExpectedWrapper(red, DefaultOptions, cat)
FieldValues == {cat, dog, StaleDog, WrappedCat}

Entry(w, c) == [word |-> [t |-> "str", v |-> w], color |-> [t |-> "str", v |-> c]]
CatEntries == <<Entry(cat, red)>>
DogEntries == <<Entry(dog, blue)>>
\* the config holds the table, or only the legacy file does, or neither
BatchConfigs ==
    {[color_entries |-> CatEntries, legacy |-> <<>>],
     [color_entries |-> <<>>, legacy |-> CatEntries],
     NoConfig}
\* what the editor saves while the run is under way
BatchEntryLists == {DogEntries}

NoteKinds ==
    {[fields |-> f, cloze |-> c] :
        f \in UNION {[1..k -> FieldValues] : k \in 1..MaxFields}, c \in BOOLEAN}

NoRegex == "None"

InitBatch ==
    /\ cfg \in BatchConfigs
    /\ opts \in {DefaultOptions, BoldOnly}
    /\ color_table = <<>>
    /\ regex = NoRegex
    /\ group_to_color = <<>>
    /\ html = <<>>
    /\ total = 0
    /\ calls = <<>>
    /\ hist = <<>>
    /\ used = <<>>
    /\ editor = NoEditor
    /\ batch = NoBatch
    /\ note = NoNote
    /\ stored = NoNote
    /\ col = <<>>
    /\ runs = <<>>

NextBatch ==
    \/ \E has_decks \in BOOLEAN, skip_cloze \in BOOLEAN, nids \in {0, MaxNotes} :
          BatchStart(has_decks, skip_cloze, nids)
    \/ \E n \in NoteKinds : BatchNextNote(n)
    \/ BatchField
    \/ BatchNoteEnd
    \/ BatchCancel
    \/ BatchFinish
    \/ \E e \in BatchEntryLists : SetEntries(e)

SpecBatch == InitBatch /\ [][NextBatch]_vars

\* what apply returns for the fragment x with the matcher the run holds
Returned(x) == apply_color_coding_to_html(x, regex, group_to_color, opts).html

\* the run has got past the compile
Running == batch.phase \in {"notes", "fields", "returned"}

\* the note in memory went through the loop over its fields to the end
NoteDone ==
    /\ batch.phase \in {"notes", "returned"}
    /\ "cloze" \in DOMAIN note
    /\ ~(batch.skip_cloze /\ note.cloze)

\* C13: an apply on a stale wrapper around text that holds no term returns
\* the text without the wrapper and a count of 0; a field is assigned iff
\* the returned fragment differs from the value it held, and a note is
\* flushed (once) iff that is so for at least one of its fields, whatever
\* the counts; a note none of whose fields differ is neither assigned nor
\* flushed, and a skipped note is left alone.
C13_ChangeByFragment ==
    /\ (batch.phase = "fields" /\ hist # <<>> /\ hist[1] = StaleDog /\ color_table = <<<<cat, red>>>>)
          => (html = dog /\ total = 0)
    /\ batch.phase = "fields" =>
          /\ stored.flushes = 0 /\ stored.fields = stored.before
          /\ \A j \in 1..(batch.fld - 1) :
                /\ note.fields[j] = Returned(stored.before[j])
                /\ j \in stored.written <=> Returned(stored.before[j]) # stored.before[j]
          /\ \A j \in batch.fld..Len(note.fields) :
                j \notin stored.written /\ note.fields[j] = stored.before[j]
    /\ NoteDone =>
          /\ stored.flushes =
                (IF \E j \in 1..Len(stored.before) : Returned(stored.before[j]) # stored.before[j]
                 THEN 1 ELSE 0)
          /\ stored.fields = [j \in 1..Len(stored.before) |-> Returned(stored.before[j])]
          /\ stored.written = {j \in 1..Len(stored.before) :
                                  Returned(stored.before[j]) # stored.before[j]}
    /\ (batch.phase \in {"notes", "returned"} /\ "cloze" \in DOMAIN note
        /\ batch.skip_cloze /\ note.cloze)
          => (stored.flushes = 0 /\ stored.fields = stored.before /\ stored.written = {})

\* a note whose only change is a stripped stale wrapper: flushed with no
\* replacement counted
C13_Witness ==
    /\ batch.phase = "notes"
    /\ NoteDone
    /\ stored.before = <<StaleDog, dog>>
    /\ stored.fields = <<dog, dog>>
    /\ stored.flushes = 1
    /\ batch.notes_modified = 1
    /\ batch.total_replacements = 0

\* a note with a counted replacement and no difference: not flushed
C13_WitnessCountedUnchanged ==
    /\ batch.phase = "notes"
    /\ NoteDone
    /\ stored.before = <<WrappedCat>>
    /\ total = 1
    /\ stored.flushes = 0
    /\ batch.notes_modified = 0

\* the run holds the matcher m, and the field applied last went through it
HoldsMatcher(m) ==
    /\ <<regex, group_to_color>> = m
    /\ Len(hist) = 2 =>
          /\ used = <<opts>>
          /\ hist[2] = apply_color_coding_to_html(hist[1], m[1], m[2], opts).html

\* C16: from the compile to the end of a run the matcher has been compiled
\* once, it is the one compiled from the table and the options read at the
\* start, every field applied so far went through it, and no step of the run
\* replaces the table, the options or the matcher, whatever the editor saves
\* in the meantime.
C16_OneMatcherPerBatch ==
    /\ [](Running =>
            /\ batch.compiles = 1
            /\ HoldsMatcher(build_combined_regex(color_table, opts)))
    /\ [][Running =>
            /\ regex' = regex
            /\ group_to_color' = group_to_color
            /\ opts' = opts
            /\ color_table' = color_table]_vars

\* the second note of a run has a field wrapped by the matcher of the start,
\* after the editor saved another table
C16_Witness ==
    /\ batch.phase = "fields"
    /\ batch.notes_seen = 2
    /\ get_color_table(cfg) # color_table
    /\ Len(hist) = 2
    /\ hist[1] = cat
    /\ total = 1

\* the run returned because a cancel was seen
Cancelled == batch.phase = "returned" /\ batch.searched /\ batch.idx < batch.nids

\* the note read last was skipped as a cloze note or went through all its
\* fields and, if one of them changed, was flushed once
LastNoteWhole ==
    "cloze" \in DOMAIN note =>
        IF batch.skip_cloze /\ note.cloze
        THEN stored.flushes = 0 /\ stored.fields = stored.before
        ELSE /\ stored.fields = [j \in 1..Len(stored.before) |-> Returned(stored.before[j])]
             /\ stored.flushes = (IF stored.fields # stored.before THEN 1 ELSE 0)

\* C22: the run is left only at the head of the loop over the notes, never
\* from inside a note; when it has returned, after a cancel as after the
\* last note, the note read last is whole, the progress indicator is
\* finished, notes_seen is the number of notes started, and from then on no
\* note is read, written or flushed and no count changes; inside a note the
\* counts grow only with a flush, between notes not at all.
C22_AbortBetweenNotes ==
    /\ [](batch.phase \in {"notes", "returned"} /\ batch.searched =>
            /\ LastNoteWhole
            /\ batch.notes_seen = batch.idx
            /\ batch.notes_modified <= batch.notes_seen
            /\ batch.phase = "returned" => batch.progress = "finished"
            /\ batch.phase = "notes" => batch.progress = "started")
    /\ [][/\ batch.phase = "returned" => (batch' = batch /\ note' = note /\ stored' = stored)
          /\ (batch.phase # "returned" /\ batch'.phase = "returned") =>
                /\ batch.phase \in {"idle", "notes"}
                /\ note' = note /\ stored' = stored
          /\ batch.phase = "notes" =>
                /\ batch'.notes_modified = batch.notes_modified
                /\ batch'.total_replacements = batch.total_replacements
          /\ batch.phase = "fields" =>
                /\ batch'.notes_modified - batch.notes_modified
                      = stored'.flushes - stored.flushes
                /\ batch'.notes_modified = batch.notes_modified
                      => batch'.total_replacements = batch.total_replacements]_vars

\* a cancel seen after the first of two notes, which was flushed
C22_Witness ==
    /\ Cancelled
    /\ batch.idx = 1
    /\ batch.nids = 2
    /\ stored.flushes = 1
    /\ batch.notes_seen = 1
    /\ batch.notes_modified = 1
    /\ batch.progress = "finished"

\* a cancel seen before the first note
C22_WitnessAtOnce ==
    /\ Cancelled
    /\ batch.idx = 0
    /\ batch.notes_seen = 0
    /\ note = NoNote

\* C23: a run started on an empty table raises, whatever decks were passed,
\* and where it has raised no checkpoint was made, the progress indicator
\* was not started, no notes were searched, no note was read, written or
\* flushed and nothing was compiled or applied; a run on a table with an
\* entry does not raise.
C23_EmptyTableRaises ==
    /\ [](batch.phase = "raised" =>
            /\ ~batch.checkpoint /\ ~batch.searched /\ batch.progress = "none"
            /\ note = NoNote /\ stored = NoNote
            /\ regex = NoRegex /\ hist = <<>> /\ used = <<>>)
    /\ [][(batch.phase = "idle" /\ batch' # batch) =>
             (batch'.phase = "raised" <=> get_color_table(cfg) = <<>>)]_vars

\* the run raised on a config without entries and without a legacy file
C23_Witness ==
    /\ batch.phase = "raised"
    /\ cfg = NoConfig
    /\ note = NoNote

\* by contrast a run on stored entries gets past the check: checkpoint made,
\* progress indicator started
C23_WitnessStart ==
    /\ batch.phase = "notes"
    /\ batch.checkpoint
    /\ batch.progress = "started"
    /\ color_table = <<<<dog, blue>>>>

(***************************************************************************)
(* SpecCompile: the same table compiled again and again, once for every    *)
(* run over one field, with options that may or may not change from run to *)
(* run.                                                                    *)
(***************************************************************************)
MaxCompileChunks == 2

CompileVocabulary == {Heart, Attack, <<" ">>}
CompileTables == {PhraseLast, CaseTieRev, LongerToken}
CompileOptions ==
    {[DefaultOptions EXCEPT !.whole_words = w, !.bold_plurals = b] :
        w \in BOOLEAN, b \in BOOLEAN}

InitCompile ==
    InitWith(CompileTables, Fragments(CompileVocabulary, MaxCompileChunks), CompileOptions)

NextCompile == \E o \in CompileOptions : RunOnce(o, MaxApplies)

SpecCompile == InitCompile /\ [][NextCompile]_vars

MaxRows == 2

JsonStr(v) == [t |-> "str", v |-> v]
JsonNull == [t |-> "null"]

PaddedCat == <<" ">> \o cat \o <<" ">>
WordValues == {JsonStr(cat), JsonStr(PaddedCat), JsonStr(dog), JsonStr(<<" ">>), JsonNull}
ColorValues == {JsonStr(red), JsonStr(<<" ">> \o blue), JsonStr(<<>>), JsonNull}

\* records with a word and a color, with one of them only, with neither, and
\* a row that is a string
TableRows ==
    {[word |-> w, color |-> c] : w \in WordValues, c \in ColorValues}
    \cup {[word |-> w] : w \in {JsonStr(cat)}}
    \cup {[color |-> c] : c \in {JsonStr(red)}}
    \cup {[group |-> JsonStr(cat)], JsonStr(cat)}

TableRowLists == UNION {[1..k -> TableRows] : k \in 0..MaxRows}

InitTable ==
    /\ cfg \in {[color_entries |-> e, legacy |-> l] :
                   e \in TableRowLists, l \in {<<>>, DogEntries}}
    /\ opts = DefaultOptions
    /\ color_table = <<>>
    /\ regex = NoRegex
    /\ group_to_color = <<>>
    /\ html = <<>>
    /\ total = 0
    /\ calls = <<>>
    /\ hist = <<>>
    /\ used = <<>>
    /\ editor = NoEditor
    /\ batch = NoBatch
    /\ note = NoNote
    /\ stored = NoNote
    /\ col = <<>>
    /\ runs = <<>>

\* a run with no deck selected: the table is read and compiled, then the run
\* returns; the editor may save other entries before the run
NextTable ==
    \/ BatchStart(FALSE, FALSE, 0)
    \/ \E e \in {CatEntries, DogEntries} : batch.phase = "idle" /\ SetEntries(e)

SpecTable == InitTable /\ [][NextTable]_vars

\* the entries get_color_table reads
EntriesRead == IF cfg.color_entries # <<>> THEN cfg.color_entries ELSE cfg.legacy

\* the row has a value under the key that is a string with more than blanks
HasText(row, key) ==
    /\ key \in DOMAIN row
    /\ row[key].t = "str"
    /\ \E i \in 1..Len(row[key].v) : row[key].v[i] \notin SpaceChars

\* a record with a non-empty word and a non-empty color
ValidEntry(row) == "t" \notin DOMAIN row /\ HasText(row, "word") /\ HasText(row, "color")

\* the positions of the valid entries with the trimmed word w
EntriesOf(w) ==
    {k \in 1..Len(EntriesRead) :
        ValidEntry(EntriesRead[k]) /\ strip(EntriesRead[k].word.v) = w}

LastOf(S) == CHOOSE k \in S : \A j \in S : j <= k

ValidWords ==
    {strip(EntriesRead[k].word.v) : k \in {j \in 1..Len(EntriesRead) : ValidEntry(EntriesRead[j])}}

\* C15: the table read maps exactly the trimmed words of the valid entries,
\* each to the trimmed color of the last valid entry with that word; rows
\* that are no records or lack a word or a color add nothing and change
\* nothing, and with no valid entry the table is empty.
C15_TableReduction ==
    /\ batch.phase = "returned" =>
          /\ {color_table[i][1] : i \in 1..Len(color_table)} = ValidWords
          /\ \A i \in 1..Len(color_table) :
                /\ \A j \in 1..Len(color_table) : color_table[j][1] = color_table[i][1] => j = i
                /\ EntriesOf(color_table[i][1]) # {}
                      => color_table[i][2] =
                            strip(EntriesRead[LastOf(EntriesOf(color_table[i][1]))].color.v)
    /\ batch.phase = "raised" => ValidWords = {}

(***************************************************************************)
(* SpecEditor: entries appended to the editor's table, which may hold      *)
(* typed rows (padded or without a word), from pasted rows of every shape. *)
(***************************************************************************)
MaxIncoming == 2
MaxEditorRows == 3

EditorRow(w, c) == [word |-> w, color |-> c, group |-> <<>>]
EditorRows ==
    {EditorRow(cat, red), EditorRow(PaddedCat, red), EditorRow(<<>>, red), EditorRow(dog, blue)}

IncomingRows ==
    {[word |-> w, color |-> JsonStr(blue)] : w \in WordValues}
    \cup {[word |-> JsonStr(cat), color |-> JsonStr(green), group |-> JsonStr(PaddedCat)],
          [word |-> JsonStr(dog)], JsonStr(cat)}

IncomingLists == UNION {[1..k -> IncomingRows] : k \in 0..MaxIncoming}

InitEditor ==
    /\ editor \in {[rows |-> r, ret |-> <<>>, before |-> r, incoming |-> <<>>] :
                      r \in UNION {[1..k -> EditorRows] : k \in 0..1}}
    /\ cfg = NoConfig
    /\ opts = DefaultOptions
    /\ color_table = <<>>
    /\ regex = NoRegex
    /\ group_to_color = <<>>
    /\ html = <<>>
    /\ total = 0
    /\ calls = <<>>
    /\ hist = <<>>
    /\ used = <<>>
    /\ batch = NoBatch
    /\ note = NoNote
    /\ stored = NoNote
    /\ col = <<>>
    /\ runs = <<>>

NextEditor ==
    \/ \E incoming \in IncomingLists : AppendEntries(incoming, MaxEditorRows)
    \/ AddRow(MaxEditorRows)

SpecEditor == InitEditor /\ [][NextEditor]_vars

\* the incoming entries with a non-empty word and a non-empty color
ValidIncoming ==
    {k \in 1..Len(editor.incoming) : ValidEntry(editor.incoming[k])}

\* the trimmed words of the rows of a table
WordsOf(rows) == {strip(rows[r].word) : r \in 1..Len(rows)}

\* the row is the trimmed word, color and group of the incoming entry e
RowOfEntry(row, e) ==
    /\ row.word = strip(e.word.v)
    /\ row.color = strip(e.color.v)
    /\ row.group = IF "group" \in DOMAIN e THEN strip(str(e.group)) ELSE <<>>

\* C17: after _append_entries the rows of before are where and what they
\* were; every row added is a valid incoming entry, trimmed, whose word was
\* the word of no row before and of no row added earlier; every valid
\* incoming entry has its word in the table; and added, skipped are the
\* number of rows added and the number of remaining valid incoming entries.
C17_AppendSkipsOnCollision ==
    editor.ret # <<>> =>
        /\ Len(editor.rows) >= Len(editor.before)
        /\ SubSeq(editor.rows, 1, Len(editor.before)) = editor.before
        /\ \A r \in (Len(editor.before) + 1)..Len(editor.rows) :
              /\ \E k \in ValidIncoming : RowOfEntry(editor.rows[r], editor.incoming[k])
              /\ editor.rows[r].word \notin WordsOf(SubSeq(editor.rows, 1, r - 1))
        /\ \A k \in ValidIncoming : strip(editor.incoming[k].word.v) \in WordsOf(editor.rows)
        /\ editor.ret[1] = Len(editor.rows) - Len(editor.before)
        /\ editor.ret[1] + editor.ret[2] = Cardinality(ValidIncoming)

(***************************************************************************)
(* SpecPluralizer: one-term tables whose last token ends in every suffix   *)
(* of the rule cascade, in either letter case, compiled under every        *)
(* combination of the options that reach the pluralizer.                   *)
(***************************************************************************)
MaxStem == 1

Stems == UNION {[1..k -> {"a", "b", "A"}] : k \in 0..MaxStem}
Suffixes ==
    {<<"u","s">>, <<"u","m">>, <<"o","n">>, <<"e","x">>, <<"i","x">>, <<"i","s">>,
     <<"m","a">>, <<"m","e","n">>, <<"x">>, <<"y">>, <<"s">>, <<"z">>, <<"c","h">>,
     <<"s","h">>, <<"t">>, <<"U","S">>, <<"Y">>, <<"u","S">>}
PluralizerWords == {st \o su : st \in Stems, su \in Suffixes}
PluralizerTables == {<<<<w, red>>>> : w \in PluralizerWords}
PluralizerOptions ==
    {[DefaultOptions EXCEPT !.whole_words = w, !.case_insensitive = c, !.bold_plurals = b] :
        w \in BOOLEAN, c \in BOOLEAN, b \in BOOLEAN}

InitPluralizer == InitWith(PluralizerTables, {<<>>}, PluralizerOptions)

NextPluralizer == \E o \in PluralizerOptions : Recompile(o, MaxRuns)

SpecPluralizer == InitPluralizer /\ [][NextPluralizer]_vars

\* the characters the words are made of
PluralizerChars == UNION {{w[i] : i \in 1..Len(w)} : w \in PluralizerWords}

\* the rules in their order: the suffixes tested, the characters cut from the
\* end of the token, the characters put in their place
PluralRules ==
    <<[suffixes |-> {<<"u","s">>}, cut |-> 2, add |-> <<"i">>],
      [suffixes |-> {<<"u","m">>}, cut |-> 2, add |-> <<"a">>],
      [suffixes |-> {<<"o","n">>}, cut |-> 2, add |-> <<"a">>],
      [suffixes |-> {<<"e","x">>, <<"i","x">>}, cut |-> 2, add |-> <<"i","c","e","s">>],
      [suffixes |-> {<<"i","s">>}, cut |-> 2, add |-> <<"e","s">>],
      [suffixes |-> {<<"m","a">>}, cut |-> 2, add |-> <<"m","a","t","a">>],
      [suffixes |-> {<<"m","e","n">>}, cut |-> 3, add |-> <<"m","i","n","a">>],
      [suffixes |-> {<<"x">>}, cut |-> 1, add |-> <<"c","e","s">>],
      [suffixes |-> {<<c, "y">> : c \in PluralizerChars \ Vowels},
       cut |-> 1, add |-> <<"i","e","s">>],
      [suffixes |-> {<<"s">>, <<"x">>, <<"z">>, <<"c","h">>, <<"s","h">>},
       cut |-> 0, add |-> <<"e","s">>],
      [suffixes |-> {<<>>}, cut |-> 0, add |-> <<"s">>]>>

\* the text s ends with the text suffix
HasSuffix(s, suffix) ==
    /\ Len(s) >= Len(suffix)
    /\ \A i \in 1..Len(suffix) : s[Len(s) - Len(suffix) + i] = suffix[i]

\* rule k applies to the tested text b
RuleApplies(k, b) == \E suffix \in PluralRules[k].suffixes : HasSuffix(b, suffix)

\* the first rule that applies
FirstRule(b) ==
    CHOOSE k \in 1..Len(PluralRules) :
        RuleApplies(k, b) /\ \A j \in 1..(k - 1) : ~RuleApplies(j, b)

\* the candidate of rule k for the token
RuleCandidate(k, tok) ==
    SubSeq(tok, 1, Len(tok) - PluralRules[k].cut) \o PluralRules[k].add

\* the last token of the one term of the table, and its piece in the pattern
LastToken == _tokenize_term(color_table[1][1])[Len(_tokenize_term(color_table[1][1]))]
LastPiece == regex.pattern[1].pieces[Len(regex.pattern[1].pieces)]

\* C18: with bold_plurals the last token's alternatives are exactly two, the
\* token and the candidate of the first rule of the cascade that applies to
\* the token, lower-cased for the test iff case_insensitive; no later rule
\* adds or changes anything.
C18_PluralCascade ==
    opts.bold_plurals =>
        LastPiece.alts =
            <<LastToken,
              RuleCandidate(FirstRule(IF opts.case_insensitive THEN lower(LastToken)
                                      ELSE LastToken),
                            LastToken)>>

\* a token that two rules apply to (us -> i and +es): the first one wins
C18_Witness ==
    /\ opts.bold_plurals
    /\ color_table[1][1] = <<"b","u","s">>
    /\ LastPiece.alts = <<<<"b","u","s">>, <<"b","i">>>>

\* the suffix in capitals: found when the case is ignored, keeping the
\* token's own letters before it, and not found when it is not
C18_WitnessCase ==
    /\ opts.bold_plurals
    /\ color_table[1][1] = <<"U","S">>
    /\ \/ opts.case_insensitive /\ LastPiece.alts = <<<<"U","S">>, <<"i">>>>
       \/ ~opts.case_insensitive /\ LastPiece.alts = <<<<"U","S">>, <<"U","S","s">>>>

(***************************************************************************)
(* SpecTokenizer: one-term tables over every trimmed term of a few         *)
(* characters: a lowercase letter, two capitals, a digit, the three kinds  *)
(* of separator and a character that is none of these.                     *)
(***************************************************************************)
MaxTermLen == 4

TermChars == {"a", "A", "B", "1", "-", "_", " ", "."}
\* the keys get_color_table can give: trimmed and not empty
Terms ==
    {w \in UNION {[1..k -> TermChars] : k \in 1..MaxTermLen} :
        w[1] # " " /\ w[Len(w)] # " "}
TokenizerTables == {<<<<w, red>>>> : w \in Terms}
TokenizerOptions == {DefaultOptions, PartialWords}

InitTokenizer == InitWith(TokenizerTables, {<<>>}, TokenizerOptions)

NextTokenizer == \E o \in TokenizerOptions : Recompile(o, MaxRuns)

SpecTokenizer == InitTokenizer /\ [][NextTokenizer]_vars

\* the term has a whitespace character, an underscore or a hyphen
HasSeparator(term) == \E i \in 1..Len(term) : term[i] \in SpaceChars \cup {"_", "-"}

\* the character at i belongs to a token
InToken(term, i) ==
    IF HasSeparator(term) THEN term[i] \notin SpaceChars \cup {"_", "-"}
    ELSE term[i] \in UpperLetters \cup LowerLetters \cup Digits

\* a token begins at i: after a separator or at the start of the term; or,
\* in a term without separators, at a digit after a non-digit, at a
\* lowercase letter after a non-letter, at a capital followed by a lowercase
\* letter, at a capital after a non-capital
TokenBegins(term, i) ==
    /\ InToken(term, i)
    /\ IF HasSeparator(term) THEN i = 1 \/ ~InToken(term, i - 1)
       ELSE \/ i = 1
            \/ ~InToken(term, i - 1)
            \/ term[i] \in Digits /\ term[i - 1] \notin Digits
            \/ term[i] \in LowerLetters /\ term[i - 1] \in Digits
            \/ term[i] \in UpperLetters /\ term[i - 1] \notin UpperLetters
            \/ /\ term[i] \in UpperLetters
               /\ i < Len(term)
               /\ term[i + 1] \in LowerLetters

TokenStarts(term) == {i \in 1..Len(term) : TokenBegins(term, i)}

\* the last index of the token that begins at b
TokenEnd(term, b) ==
    CHOOSE e \in b..Len(term) :
        /\ \A k \in (b + 1)..e : InToken(term, k) /\ ~TokenBegins(term, k)
        /\ e = Len(term) \/ ~InToken(term, e + 1) \/ TokenBegins(term, e + 1)

\* the tokens of the term, left to right
ExpectedTokens(term) ==
    [k \in 1..Cardinality(TokenStarts(term)) |->
        SubSeq(term,
               CHOOSE b \in TokenStarts(term) :
                   Cardinality({c \in TokenStarts(term) : c < b}) = k - 1,
               TokenEnd(term,
                        CHOOSE b \in TokenStarts(term) :
                            Cardinality({c \in TokenStarts(term) : c < b}) = k - 1))]

\* the tokens the compiled pattern holds for the one term of the table
CompiledTokens ==
    IF regex.pattern = <<>> THEN <<>>
    ELSE [k \in 1..Len(regex.pattern[1].pieces) |-> regex.pattern[1].pieces[k].alts[1]]

\* C19: the pattern compiled for a term holds, in order, the maximal runs
\* between separators when the term has a whitespace character, an
\* underscore or a hyphen, and otherwise its capitalized or lowercase
\* letter runs, its runs of capitals not followed by a lowercase letter and
\* its digit runs; no token is empty, and a term without a token has no
\* alternative in the pattern.
C19_Tokenizer ==
    /\ CompiledTokens = ExpectedTokens(color_table[1][1])
    /\ \A k \in 1..Len(CompiledTokens) : CompiledTokens[k] # <<>>
    /\ Len(regex.pattern) = IF ExpectedTokens(color_table[1][1]) = <<>> THEN 0 ELSE 1

\* a run between separators that the classifier would cut in two is one token
C19_Witness ==
    /\ color_table[1][1] = <<"a","B","-","1">>
    /\ CompiledTokens = <<<<"a","B">>, <<"1">>>>

\* capitals followed by a capitalized word, without separators
C19_WitnessCamel ==
    /\ color_table[1][1] = <<"A","B","a","1">>
    /\ CompiledTokens = <<<<"A">>, <<"B","a">>, <<"1">>>>

\* a term of separators only: no token, no alternative, no error
C19_WitnessNoToken ==
    /\ color_table[1][1] = <<"-","_","-">>
    /\ regex.pattern = <<>>

(***************************************************************************)
(* SpecGuard: a one-token term, a two-token term and both, under the four  *)
(* combinations of whole_words and bold_plurals, on text where the term is *)
(* followed by s or by x.                                                  *)
(***************************************************************************)
MaxGuardChunks == 2

CatDog == cat \o <<" ">> \o dog
GuardVocabulary == {cat, CatDog, <<"s">>, <<"x">>}
GuardTables == {CatTable, <<<<CatDog, blue>>>>, <<<<cat, red>>, <<CatDog, blue>>>>}
GuardOptions ==
    {[DefaultOptions EXCEPT !.whole_words = w, !.bold_plurals = b] :
        w \in BOOLEAN, b \in BOOLEAN}

InitGuard == InitWith(GuardTables, Fragments(GuardVocabulary, MaxGuardChunks), GuardOptions)

NextGuard ==
    \/ Apply(MaxRuns)
    \/ \E o \in GuardOptions : Recompile(o, MaxRuns)

SpecGuard == InitGuard /\ [][NextGuard]_vars

\* the option combination of the guard
GuardCase(o) == ~o.whole_words /\ ~o.bold_plurals

\* the term is one token
OneToken(w) == \A i \in 1..Len(w) : w[i] # " "

\* C20: a piece of the compiled pattern carries the refusal of a following s
\* iff whole_words and bold_plurals are both off and its term has one token.
\* With whole_words off, a one-token term followed by s is left alone under
\* the guard and wrapped up to the s without it; a two-token term followed
\* by s is wrapped up to the s with bold_plurals on or off; and under the
\* guard no wrapper of a one-token term is followed by s.
C20_TrailingSGuard ==
    /\ Len(regex.pattern) = Len(color_table)
    /\ \A e \in 1..Len(regex.pattern) : \A k \in 1..Len(regex.pattern[e].pieces) :
          regex.pattern[e].pieces[k].not_s
              <=> (GuardCase(opts) /\ Len(regex.pattern[e].pieces) = 1)
    /\ Len(used) >= 1 =>
          \A i \in 1..Len(color_table) :
             /\ (~LastOptions.whole_words
                    /\ WrapperFree(LastInput) = color_table[i][1] \o <<"s">>)
                   => html = IF GuardCase(LastOptions) /\ OneToken(color_table[i][1])
                             THEN color_table[i][1] \o <<"s">>
                             ELSE ExpectedWrapper(color_table[i][2], LastOptions,
                                                  color_table[i][1]) \o <<"s">>
             /\ (GuardCase(LastOptions) /\ OneToken(color_table[i][1]))
                   => ~Contains(html, ExpectedWrapper(color_table[i][2], LastOptions,
                                                      color_table[i][1]) \o <<"s">>)

\* the guard at work: cats is left alone, nothing is wrapped
C20_Witness ==
    /\ Len(used) >= 1
    /\ GuardCase(LastOptions)
    /\ color_table = CatTable
    /\ LastInput = cats
    /\ html = cats
    /\ total = 0

\* under the same options the two-token term is wrapped although an s follows
C20_WitnessTwoTokens ==
    /\ Len(used) >= 1
    /\ GuardCase(LastOptions)
    /\ LastInput = CatDog \o <<"s">>
    /\ html = ExpectedWrapper(blue, LastOptions, CatDog) \o <<"s">>

\* with bold_plurals on and whole_words off the stem of cats is wrapped
C20_WitnessNoGuard ==
    /\ Len(used) >= 1
    /\ ~LastOptions.whole_words /\ LastOptions.bold_plurals
    /\ LastInput = cats
    /\ html = ExpectedWrapper(red, LastOptions, cat) \o <<"s">>

(***************************************************************************)
(* SpecAnchor: a one-token and a two-token term in text where the term     *)
(* stands alone or runs into a letter, a digit or an underscore.           *)
(***************************************************************************)
MaxAnchorChunks == 4

CatOne == cat \o <<" ", "1">>
AnchorVocabulary == {cat, <<"s">>, <<"1">>, <<"_">>, <<" ">>}
AnchorTables == {CatTable, <<<<CatOne, blue>>>>}

InitAnchor == InitWith(AnchorTables, Fragments(AnchorVocabulary, MaxAnchorChunks), GuardOptions)

NextAnchor ==
    \/ Apply(MaxRuns)
    \/ \E o \in GuardOptions : Recompile(o, MaxRuns)

SpecAnchor == InitAnchor /\ [][NextAnchor]_vars

\* the index just after the opening tag that starts at p
AfterOpen(s, p) == FirstIn(s, p, {">"}) + 1

\* C21: after an apply with whole_words no wrapper of the result has a
\* letter, a digit or an underscore right before its opening tag or right
\* after its closing tag, and what it encloses begins and ends with a
\* character of a token.
C21_WholeWordAnchors ==
    (Len(used) >= 1 /\ LastOptions.whole_words) =>
        \A p \in 1..Len(html) :
            /\ LitAt(html, p, SPAN_OPEN, FALSE) =>
                  /\ p = 1 \/ html[p - 1] \notin WordChars
                  /\ html[AfterOpen(html, p)] \in WordChars \ {"_"}
            /\ LitAt(html, p, SPAN_CLOSE, FALSE) =>
                  /\ p + Len(SPAN_CLOSE) > Len(html) \/ html[p + Len(SPAN_CLOSE)] \notin WordChars
                  /\ html[p - 1] \in WordChars \ {"_"}

\* cat is wrapped where it stands alone and left alone where a digit follows
C21_Witness ==
    /\ Len(used) >= 1
    /\ LastOptions.whole_words
    /\ color_table = CatTable
    /\ LastInput = cat \o <<" ">> \o cat \o <<"1">>
    /\ html = ExpectedWrapper(red, LastOptions, cat) \o <<" ">> \o cat \o <<"1">>
    /\ total = 1

\* the same text without whole_words: cat is wrapped inside cat1 too
C21_WitnessPartial ==
    /\ Len(used) >= 1
    /\ ~LastOptions.whole_words
    /\ color_table = CatTable
    /\ LastInput = cat \o <<" ">> \o cat \o <<"1">>
    /\ total = 2

(***************************************************************************)
(* SpecAdd: fragments without a wrapper, holding tags, spans of their own, *)
(* a closing span without an opening one, a lone "<" and the text          *)
(* cc-color, under a plain color and a color with a quote and a "<".       *)
(***************************************************************************)
MaxAddChunks == 3

OddColor == <<"r", "\"", "<">>
AddVocabulary == {Cat, <<" ">>, TagB, ForeignSpan, SPAN_CLOSE, <<"<">>, CC_COLOR}
AddTables == {CatTable, <<<<cat, OddColor>>>>}
AddOptions == {DefaultOptions, ColorOnly, [BoldOnly EXCEPT !.bold = FALSE]}

InitAdd == InitWith(AddTables, Fragments(AddVocabulary, MaxAddChunks), AddOptions)

NextAdd ==
    \/ Apply(MaxRuns)
    \/ \E o \in AddOptions : Recompile(o, MaxRuns)

SpecAdd == InitAdd /\ [][NextAdd]_vars

RECURSIVE WithoutWrappers(_, _, _)
\* s from p on with every wrapper taken out: the opening tag of a wrapper
\* up to its ">" and the first </span> after it
WithoutWrappers(s, p, inside) ==
    IF p > Len(s) THEN <<>>
    ELSE IF s[p] # "<" THEN <<s[p]>> \o WithoutWrappers(s, p + 1, inside)
    ELSE IF inside /\ LitAt(s, p, SPAN_CLOSE, TRUE)
        THEN WithoutWrappers(s, p + Len(SPAN_CLOSE), FALSE)
    ELSE IF ~inside /\ LitAt(s, p, SPAN_OPEN, TRUE)
        THEN WithoutWrappers(s, FirstIn(s, p, {">"}) + 1, TRUE)
    ELSE <<s[p]>> \o WithoutWrappers(s, p + 1, inside)

\* C24: the result of an apply on a fragment without a wrapper, with the
\* wrappers taken out, is the fragment character for character; and there
\* are as many wrappers in it as were counted.
C24_OnlyAddsWrappers ==
    (Len(used) >= 1 /\ WrapperOpensAt(LastInput) = {}) =>
        /\ WithoutWrappers(html, 1, FALSE) = LastInput
        /\ Cardinality(WrapperOpensAt(html)) = total

\* a term wrapped between a span of the note and a closing span, with the
\* odd color: the rest of the fragment is as it was
C24_Witness ==
    /\ Len(used) >= 1
    /\ LastInput = ForeignSpan \o Cat \o SPAN_CLOSE
    /\ color_table = <<<<cat, OddColor>>>>
    /\ total = 1
    /\ html = ForeignSpan \o ExpectedWrapper(OddColor, LastOptions, Cat) \o SPAN_CLOSE

\* a lone "<" before the term stays where it was
C24_WitnessLoneBracket ==
    /\ Len(used) >= 1
    /\ LastInput = <<"<">> \o Cat
    /\ total = 1

(***************************************************************************)
(* SpecEntity: text with the character entities &amp; and &nbsp; under     *)
(* tables whose term is the name of one of them.                           *)
(***************************************************************************)
MaxEntityChunks == 3

amp == <<"a","m","p">>
EntityAmp == <<"&">> \o amp \o <<";">>
EntityVocabulary == {EntityAmp, NBSP, amp, <<" ">>}
EntityTables == {<<<<amp, red>>>>, <<<<<<"n","b","s","p">>, blue>>>>}
EntityOptions == {DefaultOptions, PartialWords}

InitEntity ==
    InitWith(EntityTables, Fragments(EntityVocabulary, MaxEntityChunks), EntityOptions)

NextEntity ==
    \/ Apply(MaxRuns)
    \/ \E o \in EntityOptions : Recompile(o, MaxRuns)

SpecEntity == InitEntity /\ [][NextEntity]_vars

\* C25: every character entity of the fragment given to an apply stands in
\* the result uninterrupted: the result holds &amp; and &nbsp; as often as
\* the fragment did.
C25_EntitiesIntact ==
    Len(used) >= 1 =>
        /\ CountLit(html, EntityAmp) = CountLit(LastInput, EntityAmp)
        /\ CountLit(html, NBSP) = CountLit(LastInput, NBSP)

(***************************************************************************)
(* SpecSplitWord: a word of which an inline tag sets off one letter.       *)
(***************************************************************************)
MaxSplitChunks == 4

SplitVocabulary == {Heart, <<"s">>, <<"x">>, TagB, TagEndB}
SplitOptions == {DefaultOptions, [DefaultOptions EXCEPT !.bold_plurals = FALSE]}

InitSplitWord ==
    InitWith({<<<<Heart, red>>>>}, Fragments(SplitVocabulary, MaxSplitChunks), SplitOptions)

NextSplitWord ==
    \/ Apply(MaxRuns)
    \/ \E o \in SplitOptions : Recompile(o, MaxRuns)

SpecSplitWord == InitSplitWord /\ [][NextSplitWord]_vars

RECURSIVE VisibleFrom(_, _)
\* the first index from p on that is not inside a tag, or 0
VisibleFrom(s, p) ==
    IF p > Len(s) THEN 0
    ELSE IF s[p] = "<" /\ FirstIn(s, p, {">"}) # 0 THEN VisibleFrom(s, FirstIn(s, p, {">"}) + 1)
    ELSE p

RECURSIVE VisibleBefore(_, _)
\* the last index up to p that is not inside a tag, or 0
VisibleBefore(s, p) ==
    IF p < 1 THEN 0
    ELSE IF s[p] = ">" /\ \E q \in 1..p : s[q] = "<"
        THEN VisibleBefore(s, (CHOOSE q \in 1..p : s[q] = "<" /\ \A r \in (q + 1)..p : s[r] # "<") - 1)
    ELSE p

\* the character at index p, or a space where there is none
CharOr(s, p) == IF p = 0 THEN " " ELSE s[p]

\* C26: with whole_words, the visible character before a wrapper and the
\* visible character after it, tags passed over, are no letter, digit or
\* underscore: the term is not wrapped inside a longer visible word.
C26_WholeWordsAcrossTags ==
    (Len(used) >= 1 /\ LastOptions.whole_words) =>
        \A p \in 1..Len(html) :
            /\ LitAt(html, p, SPAN_OPEN, FALSE) =>
                  CharOr(html, VisibleBefore(html, p - 1)) \notin WordChars
            /\ LitAt(html, p, SPAN_CLOSE, FALSE) =>
                  CharOr(html, VisibleFrom(html, p + Len(SPAN_CLOSE))) \notin WordChars

(***************************************************************************)
(* SpecOwnSpelling: a one-term table applied, with the default options, to *)
(* the term as it is written in the table.                                 *)
(***************************************************************************)
InitOwnSpelling == \E w \in Terms : InitWith({<<<<w, red>>>>}, {w}, {DefaultOptions})

NextOwnSpelling == Apply(MaxRuns)

SpecOwnSpelling == InitOwnSpelling /\ [][NextOwnSpelling]_vars

\* C27: a term that has a token, applied to its own text, is wrapped whole
\* and counted once.
C27_MatchesOwnSpelling ==
    (Len(used) = 1 /\ regex.pattern # <<>>) =>
        /\ total = 1
        /\ html = ExpectedWrapper(red, DefaultOptions, color_table[1][1])

(***************************************************************************)
(* SpecCount: fragments with wrappers of an earlier run, whole or cut      *)
(* short, next to the term, a space and a span of the note; the styles are   *)
(* all on or all off.                                                      *)
(***************************************************************************)
MaxCountChunks == 5

NoStyle == [DefaultOptions EXCEPT !.colorize = FALSE, !.bold = FALSE, !.italic = FALSE]
CountVocabulary == {Cat, <<" ">>, OldWrapper, SPAN_CLOSE, ForeignSpan}
CountOptions == {DefaultOptions, NoStyle}

InitCount == InitWith({CatTable}, Fragments(CountVocabulary, MaxCountChunks), CountOptions)

NextCount ==
    \/ Apply(MaxRuns)
    \/ \E o \in CountOptions : Recompile(o, MaxRuns)

SpecCount == InitCount /\ [][NextCount]_vars

\* the fragment as apply normalizes it holds no wrapper
NormalizedClean(s) == WrapperOpensAt(StripWrappers(s, 1)) = {}

\* C28: when the normalized fragment holds no wrapper, the count apply
\* returns is the number of wrappers in the fragment it returns, and the
\* count is 0 exactly when that fragment holds none.
C28_CountIsWrappers ==
    (Len(used) >= 1 /\ NormalizedClean(LastInput)) =>
        /\ total = Cardinality(WrapperOpensAt(html))
        /\ (total = 0) <=> (WrapperOpensAt(html) = {})

\* a wrapper of an earlier run is taken off and put on again next to a new
\* one: two wrappers, count 2
C28_Witness ==
    /\ Len(used) >= 1
    /\ LastInput = OldWrapper \o Cat \o SPAN_CLOSE \o <<" ">> \o Cat
    /\ NormalizedClean(LastInput)
    /\ total = 2
    /\ Cardinality(WrapperOpensAt(html)) = 2

\* with every style off the term is matched and left as it stands: no
\* wrapper, count 0
C28_WitnessNoStyle ==
    /\ Len(used) >= 1
    /\ LastOptions = NoStyle
    /\ LastInput = Cat \o ForeignSpan \o Cat
    /\ total = 0
    /\ html = LastInput

\* no term in the fragment: no wrapper, count 0
C28_WitnessNoMatch ==
    /\ Len(used) >= 1
    /\ LastOptions = DefaultOptions
    /\ LastInput = <<" ">> \o ForeignSpan \o SPAN_CLOSE
    /\ total = 0
    /\ html = LastInput

(***************************************************************************)
(* color_notes_in_decks from the call to the return, with the notes of the *)
(* decks held in col.  The progress dialog is never cancelled.             *)
(***************************************************************************)
\* the loop over the fields of one note: the note afterwards, modified and
\* replacements_for_note
note_pass(n, re, g2c, o) ==
    LET r == [j \in 1..Len(n.fields) |->
                 apply_color_coding_to_html(n.fields[j], re, g2c, o)]
        assigned == {j \in 1..Len(n.fields) :
                        field_changed(r[j].html, n.fields[j], r[j].total)}
    IN [note |-> [n EXCEPT !.fields = [j \in 1..Len(n.fields) |->
                                          IF j \in assigned THEN r[j].html ELSE n.fields[j]]],
        modified |-> assigned # {},
        replacements_for_note |->
            SumOf([j \in 1..Len(n.fields) |-> IF j \in assigned THEN r[j].total ELSE 0])]

\* the locals after one turn of the loop over nids, given the pass over the
\* note with index k
note_turn(acc, k, skipped, np) ==
    IF skipped THEN [acc EXCEPT !.notes_seen = @ + 1]
    ELSE IF np.modified
        THEN [acc EXCEPT !.notes_seen = @ + 1,
                         !.notes_modified = @ + 1,
                         !.total_replacements = @ + np.replacements_for_note,
                         !.col[k] = np.note,
                         !.flushed = @ \cup {k}]
    ELSE [acc EXCEPT !.notes_seen = @ + 1]

RECURSIVE notes_loop(_, _, _, _, _, _)
\* the loop over nids from the k-th note on
notes_loop(acc, k, re, g2c, o, skip_cloze) ==
    IF k > Len(acc.col) THEN acc
    ELSE notes_loop(note_turn(acc, k, skip_cloze /\ acc.col[k].cloze,
                              note_pass(acc.col[k], re, g2c, o)),
                    k + 1, re, g2c, o, skip_cloze)

\* the run after the compile: the notes afterwards, the three numbers
\* returned and the notes flushed
run_notes(notes, compiled, o, skip_cloze) ==
    notes_loop([col |-> notes, notes_seen |-> 0, notes_modified |-> 0,
                total_replacements |-> 0, flushed |-> {}],
               1, compiled[1], compiled[2], o, skip_cloze)

\* the end of the call, given the table it read and what the loop left
RunReturned(table, skip_cloze, compiled, res) ==
    /\ color_table' = table
    /\ Recompiled(compiled)
    /\ col' = res.col
    /\ runs' = Append(runs, [raised |-> FALSE, table |-> table, opts |-> opts,
                             skip_cloze |-> skip_cloze, before |-> col,
                             notes_seen |-> res.notes_seen,
                             notes_modified |-> res.notes_modified,
                             total_replacements |-> res.total_replacements,
                             flushed |-> res.flushed])

\* the call with a compiled matcher
RunWith(table, skip_cloze, compiled) ==
    RunReturned(table, skip_cloze, compiled, run_notes(col, compiled, opts, skip_cloze))

\* the call, given the table get_color_table() returned
RunOn(table, skip_cloze) ==
    IF table = <<>>
    THEN /\ runs' = Append(runs, [raised |-> TRUE])
         /\ UNCHANGED <<color_table, regex, group_to_color, col>>
    ELSE RunWith(table, skip_cloze, build_combined_regex(table, opts))

\* color_notes_in_decks(deck_names, include_children, skip_cloze, opts) on
\* decks that are selected, run to its return
ColorNotesInDecks(skip_cloze, limit) ==
    /\ Len(runs) < limit
    /\ RunOn(get_color_table(cfg), skip_cloze)
    /\ UNCHANGED <<opts, html, total, calls, hist, used, cfg, editor, batch, note, stored>>

(***************************************************************************)
(* SpecRerun: up to MaxBatchRuns runs over up to MaxRerunNotes notes whose *)
(* fields hold the term, another word, a wrapper of an earlier run or a    *)
(* wrapper inside a wrapper; the table may be saved anew between two runs. *)
(***************************************************************************)
MaxBatchRuns == 2
MaxRerunNotes == 2
MaxRerunFields == 1

NestedCat == OldWrapper \o OldWrapper \o cat \o SPAN_CLOSE \o SPAN_CLOSE
RerunFieldValues == {cat, dog, WrappedCat, NestedCat}
RerunNotes ==
    {[fields |-> f, cloze |-> c] :
        f \in UNION {[1..k -> RerunFieldValues] : k \in 1..MaxRerunFields}, c \in BOOLEAN}
RerunCollections == UNION {[1..k -> RerunNotes] : k \in 1..MaxRerunNotes}

InitRerun ==
    /\ cfg = [color_entries |-> CatEntries, legacy |-> <<>>]
    /\ opts = DefaultOptions
    /\ color_table = <<>>
    /\ regex = NoRegex
    /\ group_to_color = <<>>
    /\ html = <<>>
    /\ total = 0
    /\ calls = <<>>
    /\ hist = <<>>
    /\ used = <<>>
    /\ editor = NoEditor
    /\ batch = NoBatch
    /\ note = NoNote
    /\ stored = NoNote
    /\ col \in RerunCollections
    /\ runs = <<>>

NextRerun ==
    \/ \E skip_cloze \in BOOLEAN : ColorNotesInDecks(skip_cloze, MaxBatchRuns)
    \/ \E e \in BatchEntryLists : SetEntries(e)

SpecRerun == InitRerun /\ [][NextRerun]_vars

\* the k-th and the next run were made with the same table, options and
\* skip_cloze (the notes are only ever written by a run)
SameRunTwice(k) ==
    /\ k + 1 <= Len(runs)
    /\ ~runs[k].raised /\ ~runs[k + 1].raised
    /\ runs[k].table = runs[k + 1].table
    /\ runs[k].opts = runs[k + 1].opts
    /\ runs[k].skip_cloze = runs[k + 1].skip_cloze

\* C29: a run that follows a run with the same table, options and notes
\* flushes no note and returns 0 notes modified and 0 replacements, with
\* the same notes_seen.
C29_SecondRunNoOp ==
    \A k \in 1..Len(runs) :
        SameRunTwice(k) =>
            /\ runs[k + 1].flushed = {}
            /\ runs[k + 1].notes_modified = 0
            /\ runs[k + 1].total_replacements = 0
            /\ runs[k + 1].notes_seen = runs[k].notes_seen
            /\ col = runs[k + 1].before

(***************************************************************************)
(* _on_worker_done._extend_colors_bg: after card generation the stored     *)
(* table is read, the entries the model proposed are merged in, and the    *)
(* table is stored again.                                                  *)
(***************************************************************************)
\* existing[:200]
ExistingLimit == 200

\* get_entries_for_editor()
get_entries_for_editor(c) ==
    IF c.color_entries # <<>> THEN c.color_entries ELSE c.legacy

\* (e.get("word") or "").strip().lower()
entry_word(e) ==
    IF "word" \in DOMAIN e /\ e.word.t = "str" THEN lower(strip(e.word.v)) ELSE <<>>

\* the first n elements of s: s[:n]
Slice(s, n) == SubSeq(s, 1, IF Len(s) < n THEN Len(s) ELSE n)

\* existing_words
existing_words(existing) == {entry_word(existing[i]) : i \in 1..Len(existing)}

\* the loop over new_entries: what is appended to merged, in order
added_entries(new_entries, words) ==
    SelectSeq(new_entries, LAMBDA e : entry_word(e) # <<>> /\ entry_word(e) \notin words)

\* merged, given the entries read and cut and the new ones
merged_entries(existing, new_entries) ==
    existing \o added_entries(new_entries, existing_words(existing))

\* the extension from `existing = get_entries_for_editor()` to
\* set_color_table_entries(merged); nothing is stored when the model
\* proposed nothing or nothing new
ExtendColorsBg(new_entries) ==
    /\ new_entries # <<>>
    /\ added_entries(new_entries,
                     existing_words(Slice(get_entries_for_editor(cfg), ExistingLimit))) # <<>>
    /\ cfg' = [color_entries |->
                  merged_entries(Slice(get_entries_for_editor(cfg), ExistingLimit), new_entries),
               legacy |->
                  merged_entries(Slice(get_entries_for_editor(cfg), ExistingLimit), new_entries)]
    /\ UNCHANGED <<color_table, opts, regex, group_to_color, html, total, calls, hist, used,
                   editor, batch, note, stored, col, runs>>

(***************************************************************************)
(* SpecExtend: stored tables of a few entries and of about ExistingLimit   *)
(* entries, in the config or only in the legacy file; the model proposes   *)
(* up to MaxNewEntries entries: new words, a word of the table in another  *)
(* case, an entry without a word.                                          *)
(***************************************************************************)
MaxNewEntries == 2
MaxSmallTable == 2
MaxOverLimit == 2

DigitSeq == <<"0","1","2","3","4","5","6","7","8","9">>
\* the i-th word of a stored table: Cat first, then t001, t002, ...
TableWord(i) ==
    IF i = 1 THEN Cat
    ELSE <<"t", DigitSeq[((i \div 100) % 10) + 1], DigitSeq[((i \div 10) % 10) + 1],
           DigitSeq[(i % 10) + 1]>>
StoredTable(n) == [i \in 1..n |-> Entry(TableWord(i), red)]
TableSizes == (0..MaxSmallTable) \cup {ExistingLimit - 1 + k : k \in 0..(MaxOverLimit + 1)}

ProposedEntries ==
    {Entry(cat, blue), Entry(<<" ">> \o dog, blue), Entry(TableWord(2), blue),
     Entry(<<"A","T","P">>, red), [word |-> JsonNull, color |-> JsonStr(blue)]}
ProposedLists == UNION {[1..k -> ProposedEntries] : k \in 0..MaxNewEntries}

InitExtend ==
    /\ \E n \in TableSizes :
          cfg \in {[color_entries |-> StoredTable(n), legacy |-> StoredTable(n)],
                   [color_entries |-> <<>>, legacy |-> StoredTable(n)]}
    /\ opts = DefaultOptions
    /\ color_table = <<>>
    /\ regex = NoRegex
    /\ group_to_color = <<>>
    /\ html = <<>>
    /\ total = 0
    /\ calls = <<>>
    /\ hist = <<>>
    /\ used = <<>>
    /\ editor = NoEditor
    /\ batch = NoBatch
    /\ note = NoNote
    /\ stored = NoNote
    /\ col = <<>>
    /\ runs = <<>>

NextExtend == \E new_entries \in ProposedLists : ExtendColorsBg(new_entries)

SpecExtend == InitExtend /\ [][NextExtend]_vars

\* the table `after` is the table `before` with entries added at its end,
\* each of a word `before` did not hold
AppendOnly(before, after) ==
    /\ Len(after) >= Len(before)
    /\ SubSeq(after, 1, Len(before)) = before
    /\ \A k \in (Len(before) + 1)..Len(after) :
          /\ entry_word(after[k]) # <<>>
          /\ entry_word(after[k]) \notin existing_words(before)

\* C30: whenever the extension stores a table, the entries stored before
\* are all still there, unchanged and in order, whatever their number, and
\* what follows them are entries whose lower-cased word was not in the
\* table.
C30_ExtensionAppendOnly ==
    [][cfg' # cfg => AppendOnly(get_entries_for_editor(cfg), get_entries_for_editor(cfg'))]_vars
====
